---- MODULE Spec2Model ----
(***************************************************************************)
(* Natural-language-to-SQL facade of the automotive chatbot:               *)
(* SQLAgentManager.create_agent / SQLAgentManager.query (app/agent.py,     *)
(* identical in app/agent_aws.py) driving the plan-act-observe loop that   *)
(* create_sql_agent configures, and the extraction of the SQL list from    *)
(* the loop's intermediate steps; the database wrapper BigQueryDatabase    *)
(* (app/database.py, RedshiftDatabase in app/database_aws.py) over the     *)
(* warehouse; and the singleton accessors and query as called from         *)
(* several threads.                                                        *)
(***************************************************************************)
EXTENDS Integers, Sequences, FiniteSets, TLC

VARIABLES
    config,              \* Config: the two budgets read by create_agent
    _agent,              \* SQLAgentManager._agent  (<<>> is None, <<a>> is set)
    _toolkit,            \* SQLAgentManager._toolkit (<<>> is None, <<t>> is set)
    pc,                  \* position of the query call: idle, invoking, invoked, returned (raised: an exception escaped)
    question,            \* the question of the call in progress
    intermediate_steps,  \* the trajectory of the loop in progress
    iterations,          \* AgentExecutor: iterations of the loop so far
    time_elapsed,        \* AgentExecutor: seconds since the loop started
    outcome,             \* terminal outcome of the trajectory
    result,              \* what agent.invoke returned (<<>> before it returns)
    response,            \* what query returned (<<>> before it returns)
    calls,               \* number of query calls started
    db_up,               \* the warehouse can be reached during the call in progress
    llm_up,              \* the completion capability can be reached during the call in progress
    _db,                 \* BigQueryDatabase._db (<<>> is None, <<c>> an open connection)
    warehouse,           \* contents of the warehouse: table |-> number of rows
    db_ret,              \* the last call of a wrapper method and what it returned
    db_calls,            \* number of wrapper calls made
    _instance,           \* the module globals _agent_instance, _db_instance, _llm_instance
    objects,             \* manager objects constructed so far, per global
    caller,              \* each thread's position in a singleton accessor
    returned,            \* the (global, object) pairs the accessors have returned
    req,                 \* each thread's query call on the shared SQLAgentManager
    retry,               \* the invoke_with_retries call: its loop variables and what it returned
    built,               \* what the last call on the manager did: "try" (the body of create_agent entered), "toolkit", "agent" (constructed)
    mgr_ret,             \* the last call of create_agent, get_toolkit_info or initialize_agent and what it returned
    session_state,       \* st.session_state: messages, initialized and the three statuses
    script,              \* the application script: what its last run did, and whether a rerun is pending
    settings,            \* the configuration classes as loaded in two deployments (<<>> before the import)
    shown                \* what display_config returned in each of the two (<<>> before the call)

vars == <<config, _agent, _toolkit, pc, question, intermediate_steps,
          iterations, time_elapsed, outcome, result, response, calls,
          db_up, llm_up, _db, warehouse, db_ret, db_calls,
          _instance, objects, caller, returned, req, retry, built, mgr_ret,
          session_state, script, settings, shown>>

\* the Streamlit session and the script that runs on it
sessionVars == <<session_state, script>>

\* the loaded configuration and its display
configVars == <<settings, shown>>

\* the state of the application around the reasoning core
uiVars == <<retry, mgr_ret, sessionVars, configVars>>

\* everything a step of the plan-act-observe loop leaves alone outside the
\* query call
appVars == <<uiVars, built>>

\* the state of the threads calling the accessors and query concurrently
concVars == <<_instance, objects, caller, returned, req>>

\* the state of the database wrapper and of the warehouse behind it
dbVars == <<_db, warehouse, db_ret, db_calls>>

\* the state of the query call
queryVars == <<config, _agent, _toolkit, pc, question, intermediate_steps,
               iterations, time_elapsed, outcome, result, response, calls, llm_up>>

----------------------------------------------------------------------------
(* Bounds of the model *)

MaxConfigIterations == 2    \* SQL_AGENT_MAX_ITERATIONS ranges over 0..MaxConfigIterations
MaxConfigTime == 2          \* SQL_AGENT_MAX_EXECUTION_TIME ranges over 1..MaxConfigTime
MaxStepTime == 1            \* one iteration takes 0..MaxStepTime seconds
MaxCalls == 2               \* query calls per behaviour
MaxResultSteps == 2         \* steps of a drawn invoke result (ExtractSpec)

StepCap == MaxConfigIterations + 1   \* the loop counter never needs to pass this

Questions == {"List all tables", "Total revenue in 2024"}

None == <<>>
Some(x) == <<x>>

----------------------------------------------------------------------------
(* Tool names, as the character sequences that str.lower() and the         *)
(* substring test "'sql' in ..." work on.                                  *)

sql_db_query == <<"s","q","l","_","d","b","_","q","u","e","r","y">>
sql_db_schema == <<"s","q","l","_","d","b","_","s","c","h","e","m","a">>
sql_db_list_tables ==
    <<"s","q","l","_","d","b","_","l","i","s","t","_","t","a","b","l","e","s">>
sql_db_query_checker ==
    <<"s","q","l","_","d","b","_","q","u","e","r","y","_","c","h","e","c","k","e","r">>
\* handle_parsing_errors=True: an unparseable planning output becomes a step
\* whose action is named _Exception
ExceptionTool == <<"_","E","x","c","e","p","t","i","o","n">>
\* names the model may propose that are not in the catalog
RunSQLTool == <<"R","u","n","S","Q","L">>
QueryTool == <<"q","u","e","r","y">>

ToolkitTools == {sql_db_query, sql_db_schema, sql_db_list_tables, sql_db_query_checker}

UpperCase == <<"A","B","C","D","E","F","G","H","I","J","K","L","M",
               "N","O","P","Q","R","S","T","U","V","W","X","Y","Z">>
LowerCase == <<"a","b","c","d","e","f","g","h","i","j","k","l","m",
               "n","o","p","q","r","s","t","u","v","w","x","y","z">>

\* str.lower(), character by character
LowerChar(c) ==
    IF \E i \in 1..Len(UpperCase) : UpperCase[i] = c
    THEN LowerCase[CHOOSE i \in 1..Len(UpperCase) : UpperCase[i] = c]
    ELSE c

Lower(s) == [i \in 1..Len(s) |-> LowerChar(s[i])]

\* needle in haystack, for sequences of characters
Contains(haystack, needle) ==
    \E i \in 0..(Len(haystack) - Len(needle)) :
        \A j \in 1..Len(needle) : haystack[i + j] = needle[j]

\* 'sql' in action.tool.lower()
ToolNameSelects(tool) == Contains(Lower(tool), <<"s","q","l">>)

----------------------------------------------------------------------------
(* Steps of a trajectory.  A step is the tuple (action, observation) that  *)
(* the loop records: size is len(step); toolKind says whether the action   *)
(* has a tool attribute and whether it is a string; hasToolInput whether   *)
(* it has a tool_input attribute.                                          *)

SQL1 == "SELECT SUM(sale_price) FROM sales_transactions WHERE EXTRACT(YEAR FROM sale_date)=2024"
SQL2 == "SELECT COUNT(*) FROM vehicles"

Step(tool, input, obs) ==
    [size |-> 2, toolKind |-> "str", tool |-> tool,
     hasToolInput |-> TRUE, tool_input |-> input, observation |-> obs]

ListTablesStep == Step(sql_db_list_tables, "", "vehicles, dealerships")
SchemaStep == Step(sql_db_schema, "vehicles", "CREATE TABLE vehicles (...)")
CheckerStep == Step(sql_db_query_checker, SQL1, SQL1)
QueryStep1 == Step(sql_db_query, SQL1, "1234567.89")
QueryStep2 == Step(sql_db_query, SQL2, "42")
\* a failing execution is folded into the observation
QueryFailedStep == Step(sql_db_query, SQL1, "Error: relation does not exist")
\* a query sent while the warehouse cannot be reached
ConnectionRefusedStep == Step(sql_db_query, SQL1, "Error: connection refused")
\* unparseable planning output, kept as a step when handle_parsing_errors is on
ParseErrorStep ==
    Step(ExceptionTool, "Invalid or incomplete response", "Invalid or incomplete response")
\* an action name that is not in the catalog
InvalidToolStep1 == Step(RunSQLTool, SQL2, "RunSQL is not a valid tool")
InvalidToolStep2 == Step(QueryTool, SQL2, "query is not a valid tool")

\* what one iteration of the configured loop can append
AgentSteps ==
    {ListTablesStep, SchemaStep, CheckerStep, QueryStep1, QueryStep2,
     QueryFailedStep, ConnectionRefusedStep, ParseErrorStep, InvalidToolStep1,
     InvalidToolStep2}

\* shapes the extraction code guards against (agent.py 145-148)
EmptyStep == [Step(sql_db_query, SQL1, "") EXCEPT !.size = 0]
ShortStep == [Step(sql_db_query, SQL1, "") EXCEPT !.size = 1]
LongStep == [Step(sql_db_query, SQL2, "42") EXCEPT !.size = 3]
NoToolStep == [Step(sql_db_query, SQL1, "x") EXCEPT !.toolKind = "absent"]
NoToolInputStep == [Step(sql_db_query, SQL1, "x") EXCEPT !.hasToolInput = FALSE]
NonStrToolStep == [Step(sql_db_query, SQL1, "x") EXCEPT !.toolKind = "other"]

MalformedSteps ==
    {EmptyStep, ShortStep, LongStep, NoToolStep, NoToolInputStep, NonStrToolStep}

StoppedMessage == "Agent stopped due to iteration limit or time limit."
NoResponseGenerated == "No response generated"
FinalTexts == {"The total revenue in 2024 was 1234567.89", ""}

----------------------------------------------------------------------------
(* SQLAgentManager.query: the except handler and the post-processing of    *)
(* the dict that agent.invoke returned.                                    *)

\* variant: the handler lets the exception escape
ExceptHandlerReraises(q, e) == [pc |-> "raised", response |-> None]

\* variant: the handler reports what the loop had done so far
ExceptHandlerPartial(q, e) ==
    [pc |-> "returned",
     response |-> Some([status |-> "error", question |-> q, error |-> e,
                        steps_count |-> Len(intermediate_steps)])]

\* variant: the handler answers with the error text as a success
ExceptHandlerAnswersWithError(q, e) ==
    [pc |-> "returned",
     response |-> Some([status |-> "success", question |-> q, answer |-> e,
                        sql_queries |-> <<>>, steps_count |-> 0])]

\* variant: the handler starts another attempt when the completion
\* capability failed
ExceptHandlerRetries(q, e) ==
    IF e = "completion capability unavailable"
    THEN [pc |-> "invoking", response |-> None]
    ELSE [pc |-> "returned",
          response |-> Some([status |-> "error", question |-> q, error |-> e])]

\* except Exception as e: return {"status": "error", "question", "error"}
ExceptHandler(q, e) ==
    [pc |-> "returned",
     response |-> Some([status |-> "error", question |-> q, error |-> e])]

\* variant: result.get("output", "")
GetOutputNoDefault(res) == IF res.hasOutput THEN res.output ELSE ""

\* result.get("output", "No response generated")
GetOutput(res) == IF res.hasOutput THEN res.output ELSE NoResponseGenerated

\* result.get("intermediate_steps", [])
GetSteps(res) == IF res.hasSteps THEN res.intermediate_steps ELSE <<>>

\* variant: the len(step) >= 2 guard is missing
StepSelectedNoSizeCheck(step) ==
    /\ step.toolKind # "absent"
    /\ ToolNameSelects(step.tool)
    /\ step.hasToolInput

\* the three nested ifs of the extraction loop, for one step
StepSelected(step) ==
    /\ step.size >= 2
    /\ step.toolKind # "absent"
    /\ ToolNameSelects(step.tool)
    /\ step.hasToolInput

\* action.tool.lower() on a tool that is no string raises AttributeError
StepRaises(step) == step.size >= 2 /\ step.toolKind = "other"

\* variant: a query already listed is not listed again
RECURSIVE ExtractSqlDedup(_)
ExtractSqlDedup(steps) ==
    IF steps = <<>> THEN <<>>
    ELSE LET before == ExtractSqlDedup(SubSeq(steps, 1, Len(steps) - 1))
             step == steps[Len(steps)]
         IN  IF /\ StepSelected(step)
                /\ \A i \in 1..Len(before) : before[i] # step.tool_input
             THEN Append(before, step.tool_input)
             ELSE before

\* for step in intermediate_steps: ... sql_queries.append(action.tool_input)
RECURSIVE ExtractSql(_)
ExtractSql(steps) ==
    IF steps = <<>> THEN <<>>
    ELSE LET before == ExtractSql(SubSeq(steps, 1, Len(steps) - 1))
             step == steps[Len(steps)]
         IN  IF StepSelected(step) THEN Append(before, step.tool_input) ELSE before

\* variant: steps_count counts the listed queries
SuccessResponseCountsQueries(q, res) ==
    [status |-> "success",
     question |-> q,
     answer |-> GetOutput(res),
     sql_queries |-> ExtractSql(GetSteps(res)),
     steps_count |-> Len(ExtractSql(GetSteps(res)))]

\* the return of the success path
SuccessResponse(q, res) ==
    [status |-> "success",
     question |-> q,
     answer |-> GetOutput(res),
     sql_queries |-> ExtractSql(GetSteps(res)),
     steps_count |-> Len(GetSteps(res))]

\* lines 138-165 once agent.invoke has returned res
PostProcess(q, res) ==
    IF \E i \in 1..Len(GetSteps(res)) : StepRaises(GetSteps(res)[i])
    THEN ExceptHandler(q, "'NoneType' object has no attribute 'lower'")
    ELSE [pc |-> "returned", response |-> Some(SuccessResponse(q, res))]

----------------------------------------------------------------------------
(* SQLAgentManager.create_agent                                            *)

\* variant: max_iterations is not passed on
CreateSqlAgentNoIterationLimit(cfg) ==
    [max_iterations |-> None,
     max_execution_time |-> Some(cfg.SQL_AGENT_MAX_EXECUTION_TIME),
     handle_parsing_errors |-> TRUE,
     return_intermediate_steps |-> TRUE,
     agent_type |-> "zero-shot-react-description"]

\* variant: neither budget is passed on
CreateSqlAgentNoLimits(cfg) ==
    [max_iterations |-> None,
     max_execution_time |-> None,
     handle_parsing_errors |-> TRUE,
     return_intermediate_steps |-> TRUE,
     agent_type |-> "zero-shot-react-description"]

\* variant: the two budgets are passed in each other's place
CreateSqlAgentSwapped(cfg) ==
    [max_iterations |-> Some(cfg.SQL_AGENT_MAX_EXECUTION_TIME),
     max_execution_time |-> Some(cfg.SQL_AGENT_MAX_ITERATIONS),
     handle_parsing_errors |-> TRUE,
     return_intermediate_steps |-> TRUE,
     agent_type |-> "zero-shot-react-description"]

\* variant: handle_parsing_errors is not passed on (the library default, off)
CreateSqlAgentParsingErrorsRaise(cfg) ==
    [max_iterations |-> Some(cfg.SQL_AGENT_MAX_ITERATIONS),
     max_execution_time |-> Some(cfg.SQL_AGENT_MAX_EXECUTION_TIME),
     handle_parsing_errors |-> FALSE,
     return_intermediate_steps |-> TRUE,
     agent_type |-> "zero-shot-react-description"]

\* variant: a tool-calling agent type, whose planning turn can propose
\* several actions at once
CreateSqlAgentToolCalling(cfg) ==
    [max_iterations |-> Some(cfg.SQL_AGENT_MAX_ITERATIONS),
     max_execution_time |-> Some(cfg.SQL_AGENT_MAX_EXECUTION_TIME),
     handle_parsing_errors |-> TRUE,
     return_intermediate_steps |-> TRUE,
     agent_type |-> "tool-calling"]

\* the arguments create_sql_agent is called with
CreateSqlAgent(cfg) ==
    [max_iterations |-> Some(cfg.SQL_AGENT_MAX_ITERATIONS),
     max_execution_time |-> Some(cfg.SQL_AGENT_MAX_EXECUTION_TIME),
     handle_parsing_errors |-> TRUE,
     return_intermediate_steps |-> TRUE,
     agent_type |-> "zero-shot-react-description"]

\* where the construction can fail: the database connection, the LLM, the
\* toolkit, create_sql_agent itself
CreateFailures == {"database", "llm", "toolkit", "agent"}

\* variant: the warehouse connection is not opened while the agent is built
\* (no db_instance.get_database() in create_agent), so a warehouse that
\* cannot be reached does not fail the construction
CreateAgentLazyConnection(agent, toolkit, cfg, fail) ==
    IF agent # None
    THEN [agent |-> agent, toolkit |-> toolkit, raised |-> FALSE,
          constructed |-> {}]
    ELSE IF fail \in {"none", "database"}
    THEN [agent |-> Some(CreateSqlAgent(cfg)), toolkit |-> Some("SQLDatabaseToolkit"),
          raised |-> FALSE, constructed |-> {"try", "toolkit", "agent"}]
    ELSE [agent |-> None,
          toolkit |-> IF fail = "agent" THEN Some("SQLDatabaseToolkit") ELSE toolkit,
          raised |-> TRUE,
          constructed |-> IF fail = "agent" THEN {"try", "toolkit"} ELSE {"try"}]

\* variant: no test of self._agent, every call runs the construction
CreateAgentRebuilds(agent, toolkit, cfg, fail) ==
    IF fail = "none"
    THEN [agent |-> Some(CreateSqlAgent(cfg)), toolkit |-> Some("SQLDatabaseToolkit"),
          raised |-> FALSE, constructed |-> {"try", "toolkit", "agent"}]
    ELSE [agent |-> agent,
          toolkit |-> IF fail = "agent" THEN Some("SQLDatabaseToolkit") ELSE toolkit,
          raised |-> TRUE,
          constructed |-> IF fail = "agent" THEN {"try", "toolkit"} ELSE {"try"}]

\* create_agent on a manager holding (agent, toolkit); fail names the
\* collaborator that raises, "none" when none does; constructed says
\* whether the try block was entered ("try") and names the objects it
\* has constructed
CreateAgent(agent, toolkit, cfg, fail) ==
    IF agent # None
    THEN [agent |-> agent, toolkit |-> toolkit, raised |-> FALSE,
          constructed |-> {}]
    ELSE IF fail = "none"
    THEN [agent |-> Some(CreateSqlAgent(cfg)), toolkit |-> Some("SQLDatabaseToolkit"),
          raised |-> FALSE, constructed |-> {"try", "toolkit", "agent"}]
    ELSE [agent |-> None,
          toolkit |-> IF fail = "agent" THEN Some("SQLDatabaseToolkit") ELSE toolkit,
          raised |-> TRUE,
          constructed |-> IF fail = "agent" THEN {"try", "toolkit"} ELSE {"try"}]

----------------------------------------------------------------------------
(* The plan-act-observe loop that agent.invoke runs, as configured by      *)
(* create_agent.                                                           *)

\* the loop goes on while neither budget is used up
ShouldContinue(agent, n, t) ==
    /\ IF agent.max_iterations = None THEN TRUE ELSE n < agent.max_iterations[1]
    /\ IF agent.max_execution_time = None THEN TRUE ELSE t < agent.max_execution_time[1]

\* the dict the loop hands back
LoopResult(agent, output, steps) ==
    [hasOutput |-> TRUE, output |-> output,
     hasSteps |-> agent.return_intermediate_steps, intermediate_steps |-> steps]

\* what can raise out of one planning turn: the completion capability being
\* unreachable, and unparseable output when handle_parsing_errors is off
LoopErrors(agent) ==
    {"completion capability unavailable"}
        \cup (IF agent.handle_parsing_errors THEN {} ELSE {"Could not parse LLM output"})

\* the steps that need no answer from the warehouse
OfflineSteps == {ConnectionRefusedStep, ParseErrorStep, InvalidToolStep1, InvalidToolStep2}

\* what one iteration can append to the trajectory, the warehouse being
\* reachable (db) or not
LoopSteps(agent, db) ==
    (IF db THEN AgentSteps \ {ConnectionRefusedStep} ELSE OfflineSteps)
        \ (IF agent.handle_parsing_errors THEN {} ELSE {ParseErrorStep})

----------------------------------------------------------------------------
(* BigQueryDatabase (app/database.py; RedshiftDatabase in                  *)
(* app/database_aws.py has the same methods): the wrapper around the       *)
(* warehouse connection. A Python str is a tuple of text pieces, a list a  *)
(* tuple.                                                                  *)

MaxRows == 2        \* a table of the warehouse holds 0..MaxRows rows
MaxDbCalls == 3     \* wrapper calls per behaviour

\* the tables the warehouse can hold, in sorted order
TableOrder == <<"sales", "vehicles">>
Tables == {TableOrder[i] : i \in 1..Len(TableOrder)}

\* decimal rendering of a row count
Digits == <<"0", "1", "2", "3", "4", "5">>
Str(n) == Digits[n + 1]

\* warehouse contents: the tables present, each with its number of rows
Warehouses == UNION {[S -> 0..MaxRows] : S \in SUBSET Tables}

\* the SQL strings handed to the wrapper: a verb on a table ("SELEC" is a typo)
Verbs == {"SELECT", "INSERT", "DELETE", "DROP", "SELEC"}
Statements == [verb : Verbs, table : Tables]

\* the warehouse running one statement over an open connection: the rendered
\* rows of a SELECT COUNT(*), "" for a statement that returns no rows, or a
\* raised error; INSERT, DELETE and DROP TABLE change the contents
Run(w, up, sql) ==
    IF ~up
    THEN [raised |-> TRUE, error |-> "connection refused", value |-> <<>>, warehouse |-> w]
    ELSE IF sql.verb = "SELEC"
    THEN [raised |-> TRUE, error |-> "syntax error", value |-> <<>>, warehouse |-> w]
    ELSE IF sql.table \notin DOMAIN w
    THEN [raised |-> TRUE, error |-> "table not found", value |-> <<>>, warehouse |-> w]
    ELSE CASE sql.verb = "SELECT" ->
                [raised |-> FALSE, error |-> "",
                 value |-> <<"[(", Str(w[sql.table]), ",)]">>, warehouse |-> w]
           [] sql.verb = "INSERT" ->
                [raised |-> FALSE, error |-> "", value |-> <<"">>,
                 warehouse |-> [w EXCEPT ![sql.table] =
                                    IF @ < MaxRows THEN @ + 1 ELSE @]]
           [] sql.verb = "DELETE" ->
                [raised |-> FALSE, error |-> "", value |-> <<"">>,
                 warehouse |-> [w EXCEPT ![sql.table] = 0]]
           [] sql.verb = "DROP" ->
                [raised |-> FALSE, error |-> "", value |-> <<"">>,
                 warehouse |-> [t \in DOMAIN w \ {sql.table} |-> w[t]]]

\* the names of S in sorted order
SortedNames(S) == SelectSeq(TableOrder, LAMBDA t : t \in S)

\* get_database: the connection is opened on first use and kept; opening it
\* reads the table names of the warehouse
GetDatabase(db, w, up) ==
    IF db # None
    THEN [raised |-> FALSE, error |-> "", db |-> db]
    ELSE IF up
    THEN [raised |-> FALSE, error |-> "", db |-> Some([tables |-> DOMAIN w])]
    ELSE [raised |-> TRUE, error |-> "connection refused", db |-> None]

\* variant: get_database() is called before the try of run_query
RunQueryConnectsOutsideTry(db, w, up, sql) ==
    LET g == GetDatabase(db, w, up)
    IN  IF g.raised
        THEN [raised |-> TRUE, value |-> <<>>, db |-> g.db, warehouse |-> w]
        ELSE LET r == Run(w, up, sql)
             IN  [raised |-> FALSE,
                  value |-> IF r.raised THEN <<"Error executing query: ", r.error>>
                            ELSE r.value,
                  db |-> g.db, warehouse |-> r.warehouse]

\* run_query(query)
RunQuery(db, w, up, sql) ==
    LET g == GetDatabase(db, w, up)
    IN  IF g.raised
        THEN [raised |-> FALSE, value |-> <<"Error executing query: ", g.error>>,
              db |-> g.db, warehouse |-> w]
        ELSE LET r == Run(w, up, sql)
             IN  [raised |-> FALSE,
                  value |-> IF r.raised THEN <<"Error executing query: ", r.error>>
                            ELSE r.value,
                  db |-> g.db, warehouse |-> r.warehouse]

\* SQLDatabase(engine, sample_rows_in_table_info=3): rows shown per table
SampleRowsInTableInfo == 3

\* the table lists get_table_info is called with (None: every table)
NameLists ==
    {None, Some(<<"vehicles">>), Some(<<"vehicles", "sales">>), Some(<<"dealers">>)}

\* the schema text of the tables S: per table, in sorted order, its
\* definition and its first rows
TableInfoText(w, S) ==
    LET names == SortedNames(S)
        piece(t) == <<"CREATE TABLE ", t, " rows: ",
                      Str(IF w[t] < SampleRowsInTableInfo THEN w[t]
                          ELSE SampleRowsInTableInfo)>>
        text[i \in 0..Len(names)] ==
            IF i = 0 THEN <<>> ELSE text[i - 1] \o piece(names[i])
    IN  text[Len(names)]

\* db.get_table_info(table_names) on the open connection conn: names unknown
\* to the connection raise, then the tables are read from the warehouse
DescribeTables(conn, w, up, names) ==
    LET S == IF names = None THEN conn.tables
             ELSE {names[1][i] : i \in 1..Len(names[1])}
    IN  IF ~(S \subseteq conn.tables)
        THEN [raised |-> TRUE, error |-> "table_names not found in database", value |-> <<>>]
        ELSE IF ~up
        THEN [raised |-> TRUE, error |-> "connection refused", value |-> <<>>]
        ELSE IF ~(S \subseteq DOMAIN w)
        THEN [raised |-> TRUE, error |-> "table not found", value |-> <<>>]
        ELSE [raised |-> FALSE, error |-> "", value |-> TableInfoText(w, S)]

\* variant: get_database returns nothing on the call that opens the
\* connection, so the first get_table_info fails on it
GetTableInfoFailsOnConnect(db, w, up, names) ==
    LET g == GetDatabase(db, w, up)
    IN  IF g.raised
        THEN [raised |-> FALSE, db |-> g.db,
              value |-> <<"Error retrieving table information: ", g.error>>]
        ELSE IF db = None
        THEN [raised |-> FALSE, db |-> g.db,
              value |-> <<"Error retrieving table information: ",
                          "'NoneType' object has no attribute 'get_table_info'">>]
        ELSE LET r == DescribeTables(g.db[1], w, up, names)
             IN  [raised |-> FALSE, db |-> g.db,
                  value |-> IF r.raised
                            THEN <<"Error retrieving table information: ", r.error>>
                            ELSE r.value]

\* get_table_info(table_names)
GetTableInfo(db, w, up, names) ==
    LET g == GetDatabase(db, w, up)
    IN  IF g.raised
        THEN [raised |-> FALSE, db |-> g.db,
              value |-> <<"Error retrieving table information: ", g.error>>]
        ELSE LET r == DescribeTables(g.db[1], w, up, names)
             IN  [raised |-> FALSE, db |-> g.db,
                  value |-> IF r.raised
                            THEN <<"Error retrieving table information: ", r.error>>
                            ELSE r.value]

\* get_table_names(): the usable table names of the connection, [] when
\* get_database() or db.get_usable_table_names() raises (lists is FALSE when
\* the latter does)
GetTableNames(db, w, up, lists) ==
    LET g == GetDatabase(db, w, up)
    IN  IF g.raised \/ ~lists
        THEN [raised |-> FALSE, db |-> g.db, value |-> <<>>]
        ELSE [raised |-> FALSE, db |-> g.db, value |-> SortedNames(g.db[1].tables)]

\* test_connection(): get_database(), then get_table_names(), all in one try
TestConnection(db, w, up, lists) ==
    LET g == GetDatabase(db, w, up)
        n == GetTableNames(g.db, w, up, lists)
    IN  IF g.raised
        THEN [raised |-> FALSE, db |-> g.db,
              value |-> [status |-> "error", error |-> g.error]]
        ELSE [raised |-> FALSE, db |-> n.db,
              value |-> [status |-> "success", tables |-> n.value,
                         table_count |-> Len(n.value)]]

\* initialize_database(): test_connection() of the singleton inside a try
InitializeDatabase(db, w, up, lists) ==
    LET r == TestConnection(db, w, up, lists)
    IN  IF r.raised
        THEN [raised |-> FALSE, db |-> r.db,
              value |-> [status |-> "error", error |-> "raised"]]
        ELSE r

----------------------------------------------------------------------------
(* Threads: every browser session runs the application in a thread of its  *)
(* own, in one process.                                                    *)

Threads == {1, 2}

\* the three module globals behind get_agent_instance, get_database_instance
\* and get_llm_instance
Kinds == {"agent", "database", "llm"}

MaxAccessorCalls == 2    \* accessor calls per thread

MaxThreadCalls == 1      \* query calls per thread

\* a thread that is not inside query. question, agent, steps and response
\* are the locals of query and of the loop it runs; seen[i] is the number of
\* steps the planning turn that proposed step i had before it; queue holds
\* the actions proposed and not yet started, flying the ones started and not
\* yet observed; turns counts the iterations of the loop
IdleRequest ==
    [pc |-> "idle", question |-> "", agent |-> None, steps |-> <<>>, seen |-> <<>>,
     queue |-> <<>>, flying |-> {}, turns |-> 0, response |-> None, calls |-> 0]

----------------------------------------------------------------------------
(* LLMManagerAWS.invoke_with_retries, the throttling retry helper: a loop  *)
(* over range(max_retries) whose body calls get_llm and llm.invoke inside  *)
(* one try.                                                                *)

MaxRetries == 4        \* max_retries ranges over -1..MaxRetries
MaxRetryCalls == 2     \* invoke_with_retries calls per behaviour

\* what one pass of the loop body can meet: a completion, a ClientError
\* with the throttling code or with another code, another exception out
\* of llm.invoke, an exception out of get_llm before llm.invoke is reached
AttemptOutcomes ==
    {"ok", "ThrottlingException", "AccessDeniedException", "exception",
     "get_llm raised"}

ClientErrorCodes == {"ThrottlingException", "AccessDeniedException"}

\* 2 ** attempt
RECURSIVE Pow2(_)
Pow2(n) == IF n <= 0 THEN 1 ELSE 2 * Pow2(n - 1)

\* the helper before its first call; seen lists what the passes of the
\* call in progress have met
IdleRetry ==
    [pc |-> "idle", max_retries |-> 0, attempt |-> 0, invocations |-> 0,
     waits |-> <<>>, seen |-> <<>>, ret |-> None, calls |-> 0]

\* return {"status": "error", "error": "Max retries exceeded"}
MaxRetriesExceeded == [status |-> "error", error |-> "Max retries exceeded"]

\* for attempt in range(max_retries): the loop takes the pass numbered
\* attempt, or is exhausted and falls through to the final return
EnterPass(r, attempt) ==
    IF attempt < r.max_retries
    THEN [r EXCEPT !.pc = "running", !.attempt = attempt]
    ELSE [r EXCEPT !.pc = "returned", !.ret = Some(MaxRetriesExceeded)]

\* a ClientError is retried whatever its code
ShouldRetryAnyClientError(error_code, attempt, max_retries) ==
    attempt < max_retries - 1

\* a throttled pass is retried even when it was the last one
ShouldRetryOnLastPass(error_code, attempt, max_retries) ==
    error_code = "ThrottlingException"

\* if error_code == 'ThrottlingException' and attempt < max_retries - 1
ShouldRetry(error_code, attempt, max_retries) ==
    error_code = "ThrottlingException" /\ attempt < max_retries - 1

\* the body of the loop on the pass r.attempt meeting outcome o
Attempt(r, o) ==
    LET invoked == [r EXCEPT !.seen = Append(@, o),
                             !.invocations =
                                IF o = "get_llm raised" THEN @ ELSE @ + 1]
        Return(d) == [invoked EXCEPT !.pc = "returned", !.ret = Some(d)]
    IN  CASE o = "ok" ->
                Return([status |-> "success", response |-> "completion",
                        attempts |-> r.attempt + 1])
          [] o \in ClientErrorCodes ->
                IF ShouldRetry(o, r.attempt, r.max_retries)
                THEN EnterPass([invoked EXCEPT
                                    !.waits = Append(@, Pow2(r.attempt))],
                               r.attempt + 1)
                ELSE Return([status |-> "error", error |-> "ClientError",
                             error_code |-> o])
          [] OTHER ->
                Return([status |-> "error", error |-> o])

----------------------------------------------------------------------------
(* The other methods of SQLAgentManager and initialize_agent.              *)

MaxMgrCalls == 2       \* calls of create_agent, get_toolkit_info, initialize_agent per behaviour

\* len(self._toolkit.get_tools()): the query, schema, list-tables and
\* query-checker tools
ToolCount == 4

\* no manager method called yet
IdleManager == [calls |-> 0, call |-> "none", raised |-> FALSE, value |-> None]

\* get_toolkit_info: create_agent is called only when no toolkit is set, and
\* whatever it raises becomes an error dict
GetToolkitInfo(agent, toolkit, cfg, fail) ==
    LET c == IF toolkit = None
             THEN CreateAgent(agent, toolkit, cfg, fail)
             ELSE [agent |-> agent, toolkit |-> toolkit, raised |-> FALSE,
                   constructed |-> {}]
    IN  [agent |-> c.agent, toolkit |-> c.toolkit, constructed |-> c.constructed,
         ret |-> IF c.raised
                 THEN [status |-> "error", error |-> fail]
                 ELSE [status |-> "success", tool_count |-> ToolCount]]

\* initialize_agent: create_agent, then get_toolkit_info for the tool count
InitializeAgent(agent, toolkit, cfg, fail) ==
    LET c == CreateAgent(agent, toolkit, cfg, fail)
        info == GetToolkitInfo(c.agent, c.toolkit, cfg, fail)
    IN  IF c.raised
        THEN [agent |-> c.agent, toolkit |-> c.toolkit,
              constructed |-> c.constructed,
              ret |-> [status |-> "error", error |-> fail]]
        ELSE [agent |-> info.agent, toolkit |-> info.toolkit,
              constructed |-> c.constructed \cup info.constructed,
              ret |-> [status |-> "success",
                       message |-> "SQL agent initialized successfully",
                       tools_available |->
                            IF "tool_count" \in DOMAIN info.ret
                            THEN info.ret.tool_count ELSE 0]]

----------------------------------------------------------------------------
(* The Streamlit application: initialize_system and process_user_query on  *)
(* st.session_state.                                                       *)

MaxMessages == 4       \* entries of the transcript
MaxFailedRuns == 2     \* runs of initialize_system that return False

\* sample_questions of display_sidebar
SampleQuestions == {"Which vehicle model sold the most in 2024?"}

\* initialize_session_state on a new session
NewSession ==
    [messages |-> <<>>, initialized |-> FALSE, db_status |-> None,
     llm_status |-> None, agent_status |-> None]

\* the script of a new session: its first run is due. pc is "rerun" while
\* a run is due and "waiting" while the page waits for the user; widget is
\* what triggered the last run, ran and ret what its initialize_system
\* called and returned, clicked the sample questions clicked and asked the
\* questions handed to query_database so far, outcome what the last
\* query_database call did, failures the number of runs whose
\* initialize_system returned False
FirstRun ==
    [pc |-> "rerun", widget |-> "none", ran |-> <<>>, ret |-> FALSE,
     clicked |-> {}, asked |-> {}, outcome |-> "none", failures |-> 0]

\* what one run of initialize_system meets: config.validate() passes or
\* raises, the warehouse can be reached and its tables listed or not,
\* initialize_llm succeeds or not, a collaborator of create_agent raises
InitEnvs ==
    [validate : BOOLEAN, up : BOOLEAN, lists : BOOLEAN, llm : BOOLEAN,
     fail : {"none", "llm", "toolkit", "agent"}]

LlmStatus(ok) ==
    IF ok THEN [status |-> "success"] ELSE [status |-> "error", error |-> "llm"]

\* the manager and the connection as initialize_system finds them
World(agent, toolkit, db) == [agent |-> agent, toolkit |-> toolkit, db |-> db]

\* variant: a failed stage is reported but the later stages still run
InitializeSystemNoEarlyReturn(ss, world, w, cfg, env) ==
    IF ss.initialized
    THEN [session |-> ss, world |-> world, constructed |-> {}, ran |-> <<>>,
          ret |-> TRUE]
    ELSE IF ~env.validate
    THEN [session |-> ss, world |-> world, constructed |-> {},
          ran |-> <<"validate">>, ret |-> FALSE]
    ELSE LET d == InitializeDatabase(world.db, w, env.up, env.lists)
             l == LlmStatus(env.llm)
             a == InitializeAgent(world.agent, world.toolkit, cfg,
                                  IF d.db = None THEN "database" ELSE env.fail)
             ok == /\ d.value.status = "success"
                   /\ l.status = "success"
                   /\ a.ret.status = "success"
         IN  [session |-> [ss EXCEPT !.db_status = Some(d.value),
                                     !.llm_status = Some(l),
                                     !.agent_status = Some(a.ret),
                                     !.initialized = ok],
              world |-> World(a.agent, a.toolkit, d.db),
              constructed |-> a.constructed,
              ran |-> <<"validate", "database", "llm", "agent">>,
              ret |-> ok]

\* initialize_system on session state ss; ran lists the stages it called
InitializeSystem(ss, world, w, cfg, env) ==
    IF ss.initialized
    THEN [session |-> ss, world |-> world, constructed |-> {}, ran |-> <<>>,
          ret |-> TRUE]
    ELSE IF ~env.validate
    THEN [session |-> ss, world |-> world, constructed |-> {},
          ran |-> <<"validate">>, ret |-> FALSE]
    ELSE LET d == InitializeDatabase(world.db, w, env.up, env.lists)
             s1 == [ss EXCEPT !.db_status = Some(d.value)]
             w1 == [world EXCEPT !.db = d.db]
         IN  IF d.value.status # "success"
             THEN [session |-> s1, world |-> w1, constructed |-> {},
                   ran |-> <<"validate", "database">>, ret |-> FALSE]
             ELSE LET l == LlmStatus(env.llm)
                      s2 == [s1 EXCEPT !.llm_status = Some(l)]
                  IN  IF l.status # "success"
                      THEN [session |-> s2, world |-> w1, constructed |-> {},
                            ran |-> <<"validate", "database", "llm">>,
                            ret |-> FALSE]
                      ELSE LET a == InitializeAgent(world.agent, world.toolkit,
                                                    cfg, env.fail)
                               s3 == [s2 EXCEPT !.agent_status = Some(a.ret)]
                               w3 == World(a.agent, a.toolkit, d.db)
                               all == <<"validate", "database", "llm", "agent">>
                           IN  IF a.ret.status # "success"
                               THEN [session |-> s3, world |-> w3,
                                     constructed |-> a.constructed,
                                     ran |-> all, ret |-> FALSE]
                               ELSE [session |-> [s3 EXCEPT !.initialized = TRUE],
                                     world |-> w3,
                                     constructed |-> a.constructed,
                                     ran |-> all, ret |-> TRUE]

\* the entry appended for the question
UserMessage(q) == [role |-> "user", content |-> q]

\* what query_database(q) can hand to process_user_query: a success dict,
\* an error dict, an exception
QueryOutcomes(q) ==
    {[raised |-> FALSE,
      value |-> SuccessResponse(q, [hasOutput |-> TRUE, output |-> "42",
                                    hasSteps |-> TRUE,
                                    intermediate_steps |-> <<QueryStep1>>])],
     [raised |-> FALSE,
      value |-> ExceptHandler(q, "completion capability unavailable").response[1]],
     [raised |-> TRUE, value |-> "query_database raised"]}

\* variant: an exception out of query_database is shown but not recorded
ProcessUserQueryDropsException(messages, q, o) ==
    LET asked == Append(messages, UserMessage(q))
    IN  IF o.raised
        THEN asked
        ELSE IF o.value.status = "success"
        THEN Append(asked, [role |-> "assistant", content |-> o.value.answer,
                            sql_queries |-> o.value.sql_queries,
                            steps_count |-> o.value.steps_count])
        ELSE Append(asked, [role |-> "assistant",
                            content |-> <<"I encountered an error: ", o.value.error>>,
                            error |-> TRUE])

\* process_user_query(q) on the transcript, query_database having outcome o
ProcessUserQuery(messages, q, o) ==
    LET asked == Append(messages, UserMessage(q))
    IN  IF o.raised
        THEN Append(asked, [role |-> "assistant",
                            content |-> <<"An unexpected error occurred: ", o.value>>,
                            error |-> TRUE])
        ELSE IF o.value.status = "success"
        THEN Append(asked, [role |-> "assistant", content |-> o.value.answer,
                            sql_queries |-> o.value.sql_queries,
                            steps_count |-> o.value.steps_count])
        ELSE Append(asked, [role |-> "assistant",
                            content |-> <<"I encountered an error: ", o.value.error>>,
                            error |-> TRUE])

----------------------------------------------------------------------------
(* The configuration classes Config and ConfigAWS, whose attributes are    *)
(* read from the environment when the module is imported, and their        *)
(* display_config.                                                         *)

\* an Optional[str] setting: unset, or one of two values
OptionalSecrets(a, b) == {None, Some(a), Some(b)}

\* class Config as the environment can make it
ConfigsGCP ==
    [PROJECT_ID : {"YOUR_PROJECT_ID", "acme-analytics"},
     LOCATION : {"us-central1"},
     BIGQUERY_DATASET : {"automotive_data"},
     GEMINI_MODEL : {"gemini-2.0-flash-lite-001"},
     GEMINI_TEMPERATURE : {"0.1"},
     GOOGLE_APPLICATION_CREDENTIALS : OptionalSecrets("/keys/a.json", "/keys/b.json"),
     LANGCHAIN_API_KEY : OptionalSecrets("ls-key-1", "ls-key-2")]

\* class ConfigAWS as the environment can make it
ConfigsAWS ==
    [AWS_REGION : {"us-east-1", "eu-west-1"},
     REDSHIFT_HOST : {"cluster.redshift.amazonaws.com"},
     REDSHIFT_DATABASE : {"automotive_data"},
     REDSHIFT_SCHEMA : {"public"},
     REDSHIFT_USER : {"admin"},
     REDSHIFT_PASSWORD : {"", "hunter2"},
     REDSHIFT_USE_IAM : {FALSE},
     REDSHIFT_CLUSTER_IDENTIFIER : {"automotive-cluster"},
     BEDROCK_MODEL_ID : {"anthropic.claude-3-5-sonnet-20241022-v2:0"},
     BEDROCK_TEMPERATURE : {"0.1"},
     AWS_ACCESS_KEY_ID : {None, Some("AKIA1")},
     AWS_SECRET_ACCESS_KEY : {None, Some("secret1")},
     AWS_SESSION_TOKEN : {None, Some("token1")},
     LANGCHAIN_API_KEY : {None, Some("ls-key-1")}]

\* the settings that hold credentials
SecretFields ==
    {"REDSHIFT_PASSWORD", "AWS_ACCESS_KEY_ID", "AWS_SECRET_ACCESS_KEY",
     "AWS_SESSION_TOKEN", "LANGCHAIN_API_KEY", "GOOGLE_APPLICATION_CREDENTIALS"}

\* ConfigAWS.get_redshift_uri, as the pieces of the formatted string
GetRedshiftUri(cfg) ==
    IF cfg.REDSHIFT_USE_IAM
    THEN <<"postgresql+psycopg2://", cfg.REDSHIFT_USER, "@", cfg.REDSHIFT_HOST,
           "/", cfg.REDSHIFT_DATABASE>>
    ELSE <<"postgresql+psycopg2://", cfg.REDSHIFT_USER, ":", cfg.REDSHIFT_PASSWORD,
           "@", cfg.REDSHIFT_HOST, "/", cfg.REDSHIFT_DATABASE>>

\* Config.display_config
DisplayConfigGCP(cfg) ==
    ("Project ID" :> cfg.PROJECT_ID) @@ ("Location" :> cfg.LOCATION)
        @@ ("Dataset" :> cfg.BIGQUERY_DATASET) @@ ("Model" :> cfg.GEMINI_MODEL)
        @@ ("Temperature" :> cfg.GEMINI_TEMPERATURE)

\* variant: the connection URI is displayed as well
DisplayConfigShowsUri(cfg) ==
    ("AWS Region" :> cfg.AWS_REGION)
        @@ ("Redshift Cluster" :> cfg.REDSHIFT_CLUSTER_IDENTIFIER)
        @@ ("Database" :> cfg.REDSHIFT_DATABASE)
        @@ ("Schema" :> cfg.REDSHIFT_SCHEMA)
        @@ ("Bedrock Model" :> cfg.BEDROCK_MODEL_ID)
        @@ ("Temperature" :> cfg.BEDROCK_TEMPERATURE)
        @@ ("Connection" :> GetRedshiftUri(cfg))

\* ConfigAWS.display_config
DisplayConfig(cfg) ==
    ("AWS Region" :> cfg.AWS_REGION)
        @@ ("Redshift Cluster" :> cfg.REDSHIFT_CLUSTER_IDENTIFIER)
        @@ ("Database" :> cfg.REDSHIFT_DATABASE)
        @@ ("Schema" :> cfg.REDSHIFT_SCHEMA)
        @@ ("Bedrock Model" :> cfg.BEDROCK_MODEL_ID)
        @@ ("Temperature" :> cfg.BEDROCK_TEMPERATURE)

----------------------------------------------------------------------------
(* State after construction *)

Configs ==
    [SQL_AGENT_MAX_ITERATIONS : 0..MaxConfigIterations,
     SQL_AGENT_MAX_EXECUTION_TIME : 1..MaxConfigTime]

Init ==
    /\ config \in Configs
    /\ _agent = None
    /\ _toolkit = None
    /\ pc = "idle"
    /\ question = ""
    /\ intermediate_steps = <<>>
    /\ iterations = 0
    /\ time_elapsed = 0
    /\ outcome = "none"
    /\ result = None
    /\ response = None
    /\ calls = 0
    /\ db_up = TRUE
    /\ llm_up = TRUE
    /\ _db = None
    /\ warehouse = [t \in Tables |-> 1]
    /\ db_ret = None
    /\ db_calls = 0
    /\ _instance = [k \in Kinds |-> None]
    /\ objects = [k \in Kinds |-> 0]
    /\ caller = [t \in Threads |-> [pc |-> "idle", kind |-> "agent", calls |-> 0]]
    /\ returned = {}
    /\ req = [t \in Threads |-> IdleRequest]
    /\ retry = IdleRetry
    /\ built = {}
    /\ mgr_ret = IdleManager
    /\ session_state = NewSession
    /\ script = FirstRun
    /\ settings = None
    /\ shown = None

----------------------------------------------------------------------------
(* Actions *)

\* query(question) up to the call of agent.invoke: agent = self.create_agent().
\* db and llm say whether the two collaborators can be reached while the
\* call runs; building the agent opens the warehouse connection (get_database).
QueryEnter(q, fail, db, llm) ==
    /\ pc \in {"idle", "returned"}
    /\ calls < MaxCalls
    /\ db_up' = db
    /\ llm_up' = llm
    /\ calls' = calls + 1
    /\ question' = q
    /\ intermediate_steps' = <<>>
    /\ iterations' = 0
    /\ time_elapsed' = 0
    /\ result' = None
    /\ LET c == CreateAgent(_agent, _toolkit, config, fail)
           h == ExceptHandler(q, fail)
       IN  /\ _agent' = c.agent
           /\ _toolkit' = c.toolkit
           /\ built' = c.constructed
           /\ IF c.raised
              THEN /\ pc' = h.pc
                   /\ response' = h.response
                   /\ outcome' = "error"
              ELSE /\ pc' = "invoking"
                   /\ response' = None
                   /\ outcome' = "none"
    /\ _db' = IF _agent = None /\ fail # "database"
              THEN GetDatabase(_db, warehouse, db).db
              ELSE _db
    /\ UNCHANGED <<config, warehouse, db_ret, db_calls, concVars, uiVars>>

\* query whose create_agent returns an agent (cached or newly built)
QueryInvoke(q, db, llm) ==
    LET fail == IF db THEN "none" ELSE "database"
    IN  /\ ~CreateAgent(_agent, _toolkit, config, fail).raised
        /\ QueryEnter(q, fail, db, llm)

\* query whose create_agent raises
QueryCreateFails(q, fail, db, llm) ==
    /\ ~db => fail = "database"
    /\ CreateAgent(_agent, _toolkit, config, fail).raised
    /\ QueryEnter(q, fail, db, llm)

\* one plan-act-observe iteration that ends with a step appended
TakeNextStep(step, dt) ==
    /\ pc = "invoking"
    /\ ShouldContinue(_agent[1], iterations, time_elapsed)
    /\ iterations < StepCap
    /\ llm_up
    /\ step \in LoopSteps(_agent[1], db_up)
    /\ intermediate_steps' = Append(intermediate_steps, step)
    /\ iterations' = iterations + 1
    /\ time_elapsed' = time_elapsed + dt
    /\ UNCHANGED <<config, _agent, _toolkit, pc, question, outcome, result,
                   response, calls, db_up, llm_up,
                   dbVars, concVars, appVars>>

\* a planning turn that produces the final answer: invoke returns, query
\* post-processes and returns
FinalAnswer(text) ==
    /\ pc = "invoking"
    /\ ShouldContinue(_agent[1], iterations, time_elapsed)
    /\ llm_up
    /\ LET res == LoopResult(_agent[1], text, intermediate_steps)
           post == PostProcess(question, res)
       IN  /\ result' = Some(res)
           /\ pc' = post.pc
           /\ response' = post.response
    /\ outcome' = "final_answer"
    /\ UNCHANGED <<config, _agent, _toolkit, question, intermediate_steps,
                   iterations, time_elapsed, calls, db_up, llm_up,
                   dbVars, concVars, appVars>>

\* budget used up: the loop returns its stopped response, query
\* post-processes and returns
ReturnStopped ==
    /\ pc = "invoking"
    /\ ~ShouldContinue(_agent[1], iterations, time_elapsed)
    /\ LET res == LoopResult(_agent[1], StoppedMessage, intermediate_steps)
           post == PostProcess(question, res)
       IN  /\ result' = Some(res)
           /\ pc' = post.pc
           /\ response' = post.response
    /\ outcome' = "aborted"
    /\ UNCHANGED <<config, _agent, _toolkit, question, intermediate_steps,
                   iterations, time_elapsed, calls, db_up, llm_up,
                   dbVars, concVars, appVars>>

\* a planning turn raises out of agent.invoke: query's except handler
InvokeRaises(e) ==
    /\ pc = "invoking"
    /\ ShouldContinue(_agent[1], iterations, time_elapsed)
    /\ e \in LoopErrors(_agent[1])
    /\ LET h == ExceptHandler(question, e)
       IN  /\ pc' = h.pc
           /\ response' = h.response
    /\ outcome' = "error"
    /\ UNCHANGED <<config, _agent, _toolkit, question, intermediate_steps,
                   iterations, time_elapsed, result, calls, db_up, llm_up,
                   dbVars, concVars, appVars>>

AllLoopErrors == {"completion capability unavailable", "Could not parse LLM output"}

Next ==
    \/ \E q \in Questions, db, llm \in BOOLEAN : QueryInvoke(q, db, llm)
    \/ \E q \in Questions, fail \in CreateFailures, db, llm \in BOOLEAN :
            QueryCreateFails(q, fail, db, llm)
    \/ \E step \in AgentSteps, dt \in 0..MaxStepTime : TakeNextStep(step, dt)
    \/ \E text \in FinalTexts : FinalAnswer(text)
    \/ ReturnStopped
    \/ \E e \in AllLoopErrors : InvokeRaises(e)

Spec == Init /\ [][Next]_vars

\* Termination does not depend on which steps are taken or which question is
\* asked: the liveness check runs the same actions over one question, one
\* executed query and one invalid action name.
LiveSteps == {QueryStep1, ConnectionRefusedStep, InvalidToolStep1}

LiveNext ==
    \/ \E db \in BOOLEAN : QueryInvoke("Total revenue in 2024", db, TRUE)
    \/ QueryCreateFails("Total revenue in 2024", "database", FALSE, TRUE)
    \/ \E step \in LiveSteps, dt \in 0..MaxStepTime : TakeNextStep(step, dt)
    \/ FinalAnswer("")
    \/ ReturnStopped
    \/ InvokeRaises("completion capability unavailable")

\* the thread running query is scheduled until it returns, and every call of
\* a collaborator returns or raises
LiveSpec ==
    /\ Init
    /\ [][LiveNext]_vars
    /\ WF_vars(\E step \in LiveSteps, dt \in 0..MaxStepTime : TakeNextStep(step, dt))
    /\ WF_vars(ReturnStopped)

----------------------------------------------------------------------------
(* The post-processing of query applied to any dict agent.invoke may hand  *)
(* back: keys missing, steps of any shape.                                 *)

SeqsUpTo(S, n) == UNION {[1..k -> S] : k \in 0..n}

DrawnResults ==
    {r \in [hasOutput : BOOLEAN, output : FinalTexts \cup {StoppedMessage},
            hasSteps : BOOLEAN,
            intermediate_steps : SeqsUpTo(AgentSteps \cup MalformedSteps, MaxResultSteps)] :
        /\ ~r.hasOutput => r.output = ""
        /\ ~r.hasSteps => r.intermediate_steps = <<>>}

ExtractInit ==
    /\ config = [SQL_AGENT_MAX_ITERATIONS |-> MaxConfigIterations,
                 SQL_AGENT_MAX_EXECUTION_TIME |-> MaxConfigTime]
    /\ _agent = Some(CreateSqlAgent(config))
    /\ _toolkit = Some("SQLDatabaseToolkit")
    /\ pc = "invoked"
    /\ question \in Questions
    /\ intermediate_steps = <<>>
    /\ iterations = 0
    /\ time_elapsed = 0
    /\ outcome \in {"final_answer", "aborted"}
    /\ result \in {Some(r) : r \in DrawnResults}
    /\ response = None
    /\ calls = 1
    /\ db_up = TRUE
    /\ llm_up = TRUE
    /\ _db = Some([tables |-> Tables])
    /\ warehouse = [t \in Tables |-> 1]
    /\ db_ret = None
    /\ db_calls = 0
    /\ _instance = [k \in Kinds |-> None]
    /\ objects = [k \in Kinds |-> 0]
    /\ caller = [t \in Threads |-> [pc |-> "idle", kind |-> "agent", calls |-> 0]]
    /\ returned = {}
    /\ req = [t \in Threads |-> IdleRequest]
    /\ retry = IdleRetry
    /\ built = {}
    /\ mgr_ret = IdleManager
    /\ session_state = NewSession
    /\ script = FirstRun
    /\ settings = None
    /\ shown = None

\* lines 138-165 of query on the drawn result
HandleResult ==
    /\ pc = "invoked"
    /\ LET post == PostProcess(question, result[1])
       IN  /\ pc' = post.pc
           /\ response' = post.response
    /\ UNCHANGED <<config, _agent, _toolkit, question, intermediate_steps,
                   iterations, time_elapsed, outcome, result, calls, db_up, llm_up,
                   dbVars, concVars, appVars>>

ExtractNext == HandleResult

ExtractSpec == ExtractInit /\ [][ExtractNext]_vars

----------------------------------------------------------------------------
(* Calls of the database wrapper, each while the warehouse can (up) or     *)
(* cannot be reached.                                                      *)

DbInit ==
    /\ Init
    /\ config = [SQL_AGENT_MAX_ITERATIONS |-> MaxConfigIterations,
                 SQL_AGENT_MAX_EXECUTION_TIME |-> MaxConfigTime]

DbRunQuery(sql, up) ==
    /\ db_calls < MaxDbCalls
    /\ db_calls' = db_calls + 1
    /\ db_up' = up
    /\ LET r == RunQuery(_db, warehouse, up, sql)
       IN  /\ _db' = r.db
           /\ warehouse' = r.warehouse
           /\ db_ret' = Some([op |-> "run_query", arg |-> sql,
                              raised |-> r.raised, value |-> r.value])
    /\ UNCHANGED <<queryVars, concVars, appVars>>

\* opened: this call opened the connection; again: the call before it was
\* get_table_info with the same list
DbGetTableInfo(names, up) ==
    /\ db_calls < MaxDbCalls
    /\ db_calls' = db_calls + 1
    /\ db_up' = up
    /\ LET r == GetTableInfo(_db, warehouse, up, names)
       IN  /\ _db' = r.db
           /\ db_ret' = Some([op |-> "get_table_info", arg |-> names,
                              raised |-> r.raised, value |-> r.value,
                              opened |-> (_db = None /\ r.db # None),
                              again |-> /\ db_ret # None
                                        /\ db_ret[1].op = "get_table_info"
                                        /\ db_ret[1].arg = names])
    /\ UNCHANGED <<queryVars, concVars, appVars, warehouse>>

DbGetTableNames(up, lists) ==
    /\ db_calls < MaxDbCalls
    /\ db_calls' = db_calls + 1
    /\ db_up' = up
    /\ LET r == GetTableNames(_db, warehouse, up, lists)
       IN  /\ _db' = r.db
           /\ db_ret' = Some([op |-> "get_table_names", arg |-> None,
                              raised |-> r.raised, value |-> r.value])
    /\ UNCHANGED <<queryVars, concVars, appVars, warehouse>>

\* test_connection() or initialize_database() is called; connected records
\* whether a connection was open or could be opened, listed whether
\* db.get_usable_table_names() returned
DbTestConnection(op, up, lists) ==
    /\ db_calls < MaxDbCalls
    /\ db_calls' = db_calls + 1
    /\ db_up' = up
    /\ LET r == IF op = "test_connection"
                THEN TestConnection(_db, warehouse, up, lists)
                ELSE InitializeDatabase(_db, warehouse, up, lists)
       IN  /\ _db' = r.db
           /\ db_ret' = Some([op |-> op, arg |-> None,
                              raised |-> r.raised, value |-> r.value,
                              connected |-> _db # None \/ up,
                              listed |-> lists])
    /\ UNCHANGED <<queryVars, concVars, appVars, warehouse>>

DbNext ==
    \/ \E sql \in Statements, up \in BOOLEAN : DbRunQuery(sql, up)
    \/ \E names \in NameLists, up \in BOOLEAN : DbGetTableInfo(names, up)
    \/ \E up, lists \in BOOLEAN : DbGetTableNames(up, lists)
    \/ \E op \in {"test_connection", "initialize_database"}, up, lists \in BOOLEAN :
            DbTestConnection(op, up, lists)

DbSpec == DbInit /\ [][DbNext]_vars

----------------------------------------------------------------------------
(* The singleton accessors, called from several threads. A thread can be   *)
(* suspended between any two of: the test of the global, the construction  *)
(* and assignment, the read of the global for the return.                  *)

\* if _x_instance is None:
AccessorTest(t, k) ==
    /\ caller[t].pc = "idle"
    /\ caller[t].calls < MaxAccessorCalls
    /\ caller' = [caller EXCEPT ![t] =
            [pc |-> IF _instance[k] = None THEN "constructing" ELSE "returning",
             kind |-> k, calls |-> @.calls + 1]]
    /\ UNCHANGED <<queryVars, db_up, dbVars, appVars, _instance, objects, returned, req>>

\* _x_instance = Manager()
AccessorConstruct(t) ==
    /\ caller[t].pc = "constructing"
    /\ LET k == caller[t].kind
       IN  /\ objects' = [objects EXCEPT ![k] = @ + 1]
           /\ _instance' = [_instance EXCEPT ![k] = Some(objects[k] + 1)]
    /\ caller' = [caller EXCEPT ![t].pc = "returning"]
    /\ UNCHANGED <<queryVars, db_up, dbVars, appVars, returned, req>>

\* return _x_instance
AccessorReturn(t) ==
    /\ caller[t].pc = "returning"
    /\ returned' = returned \cup {<<caller[t].kind, _instance[caller[t].kind][1]>>}
    /\ caller' = [caller EXCEPT ![t].pc = "idle"]
    /\ UNCHANGED <<queryVars, db_up, dbVars, appVars, _instance, objects, req>>

SingletonNext ==
    \/ \E t \in Threads, k \in Kinds : AccessorTest(t, k)
    \/ \E t \in Threads : AccessorConstruct(t)
    \/ \E t \in Threads : AccessorReturn(t)

SingletonSpec == DbInit /\ [][SingletonNext]_vars

----------------------------------------------------------------------------
(* query called from several threads on the one SQLAgentManager, with the  *)
(* loop of each call taken apart into its planning turns, the start of an  *)
(* action and its observation.                                             *)

\* what the threads' planning turns propose, with the observation each
\* action yields when executed
ConcSteps == {ListTablesStep, QueryStep2}

ActionOf(step) == [tool |-> step.tool, tool_input |-> step.tool_input]

PlannedActions == {ActionOf(s) : s \in ConcSteps}

\* the step recorded for an executed action
Execute(action) == CHOOSE s \in ConcSteps : ActionOf(s) = action

\* the number of actions one planning turn can propose: one for the ReAct
\* agent type, several for a tool-calling one
ActionsPerTurn(agent) ==
    IF agent.agent_type = "zero-shot-react-description" THEN {1} ELSE {1, 2}

\* everything the threads' query calls leave alone
seqVars == <<config, pc, question, intermediate_steps, iterations, time_elapsed,
             outcome, result, response, calls, llm_up, db_up, warehouse, db_ret,
             db_calls, _instance, objects, caller, returned, uiVars>>

\* the handles shared by every thread
sharedHandles == <<_agent, _toolkit, _db>>

\* query(question) up to the test of create_agent: if self._agent is None
ReqEnter(t, q) ==
    /\ req[t].pc \in {"idle", "returned"}
    /\ req[t].calls < MaxThreadCalls
    /\ req' = [req EXCEPT ![t] =
            [IdleRequest EXCEPT
                !.pc = IF _agent = None THEN "creating" ELSE "planning",
                !.question = q,
                !.agent = _agent,
                !.calls = req[t].calls + 1]]
    /\ UNCHANGED <<seqVars, sharedHandles, built>>

\* the body of create_agent, run by a thread that found self._agent None:
\* get_database(), self._toolkit = ..., self._agent = ..., return self._agent
ReqCreate(t, fail) ==
    /\ req[t].pc = "creating"
    /\ fail = "database" => _db = None
    /\ LET c == CreateAgent(None, _toolkit, config, fail)
           g == GetDatabase(_db, warehouse, fail # "database")
           h == ExceptHandler(req[t].question, fail)
       IN  /\ _db' = g.db
           /\ _toolkit' = c.toolkit
           /\ _agent' = IF c.raised THEN _agent ELSE c.agent
           /\ built' = c.constructed
           /\ req' = [req EXCEPT ![t] =
                    IF c.raised
                    THEN [@ EXCEPT !.pc = h.pc, !.response = h.response]
                    ELSE [@ EXCEPT !.pc = "planning", !.agent = c.agent]]
    /\ UNCHANGED seqVars

\* a planning turn that proposes actions; it has the steps so far before it
ReqPlan(t, batch) ==
    /\ req[t].pc = "planning"
    /\ ShouldContinue(req[t].agent[1], req[t].turns, 0)
    /\ Len(batch) \in ActionsPerTurn(req[t].agent[1])
    /\ req' = [req EXCEPT ![t].pc = "acting",
                          ![t].queue = [i \in 1..Len(batch) |->
                                [action |-> batch[i], seen |-> Len(req[t].steps)]]]
    /\ UNCHANGED <<seqVars, sharedHandles, built>>

\* the next proposed action is started
ReqDispatch(t) ==
    /\ req[t].pc = "acting"
    /\ req[t].queue # <<>>
    /\ req[t].flying = {}
    /\ req' = [req EXCEPT ![t].flying = {Head(req[t].queue)},
                          ![t].queue = Tail(req[t].queue)]
    /\ UNCHANGED <<seqVars, sharedHandles, built>>

\* the action in flight ends: its observation is appended with it; the
\* iteration is over when no proposed action is left
ReqObserve(t) ==
    /\ req[t].pc = "acting"
    /\ \E a \in req[t].flying :
        req' = [req EXCEPT
                    ![t].flying = @ \ {a},
                    ![t].steps = Append(@, Execute(a.action)),
                    ![t].seen = Append(@, a.seen),
                    ![t].turns = IF req[t].queue = <<>> THEN @ + 1 ELSE @,
                    ![t].pc = IF req[t].queue = <<>> THEN "planning" ELSE "acting"]
    /\ UNCHANGED <<seqVars, sharedHandles, built>>

\* a planning turn that gives the final answer, or the budget is used up:
\* agent.invoke returns and query post-processes the thread's own steps
ReqReturn(t, text) ==
    /\ req[t].pc = "planning"
    /\ ShouldContinue(req[t].agent[1], req[t].turns, 0) <=> (text # StoppedMessage)
    /\ LET res == LoopResult(req[t].agent[1], text, req[t].steps)
           post == PostProcess(req[t].question, res)
       IN  req' = [req EXCEPT ![t].pc = post.pc, ![t].response = post.response]
    /\ UNCHANGED <<seqVars, sharedHandles, built>>

ConcNext ==
    \/ \E t \in Threads, q \in Questions : ReqEnter(t, q)
    \/ \E t \in Threads, fail \in {"none", "database"} : ReqCreate(t, fail)
    \/ \E t \in Threads, batch \in SeqsUpTo(PlannedActions, 2) : ReqPlan(t, batch)
    \/ \E t \in Threads : ReqDispatch(t)
    \/ \E t \in Threads : ReqObserve(t)
    \/ \E t \in Threads, text \in {"The total revenue in 2024 was 1234567.89", StoppedMessage} :
            ReqReturn(t, text)

ConcSpec == DbInit /\ [][ConcNext]_vars

----------------------------------------------------------------------------
(* Calls of invoke_with_retries, one pass of its loop at a time.           *)

\* invoke_with_retries(prompt, max_retries) is called
RetryCall(n) ==
    /\ retry.pc \in {"idle", "returned"}
    /\ retry.calls < MaxRetryCalls
    /\ retry' = EnterPass([IdleRetry EXCEPT !.max_retries = n,
                                            !.calls = retry.calls + 1], 0)
    /\ UNCHANGED <<queryVars, db_up, dbVars, concVars, built, mgr_ret,
                   sessionVars, configVars>>

\* one pass of the loop body
RetryAttempt(o) ==
    /\ retry.pc = "running"
    /\ retry' = Attempt(retry, o)
    /\ UNCHANGED <<queryVars, db_up, dbVars, concVars, built, mgr_ret,
                   sessionVars, configVars>>

RetryNext ==
    \/ \E n \in -1..MaxRetries : RetryCall(n)
    \/ \E o \in AttemptOutcomes : RetryAttempt(o)

RetrySpec == DbInit /\ [][RetryNext]_vars

\* a pass that can be taken is taken: the loop body has no blocking call
\* but the bounded sleep
RetryLiveSpec == RetrySpec /\ WF_vars(\E o \in AttemptOutcomes : RetryAttempt(o))

----------------------------------------------------------------------------
(* Calls on one SQLAgentManager, one after the other: create_agent,        *)
(* get_toolkit_info, initialize_agent and query.                           *)

\* a manager method is entered while no query call is running; fail names
\* the collaborator that would raise during a construction, tried says
\* whether the call runs the body of create_agent (which opens the
\* warehouse connection first)
ManagerCall(fail, tried) ==
    /\ pc \in {"idle", "returned"}
    /\ mgr_ret.calls < MaxMgrCalls
    /\ db_up' = (fail # "database")
    /\ _db' = IF tried /\ fail # "database"
              THEN GetDatabase(_db, warehouse, TRUE).db
              ELSE _db
    /\ UNCHANGED <<config, pc, question, intermediate_steps, iterations,
                   time_elapsed, outcome, result, response, calls, llm_up,
                   warehouse, db_ret, db_calls, concVars, retry,
                   sessionVars, configVars>>

\* agent_manager.create_agent()
MgrCreateAgent(fail) ==
    /\ ManagerCall(fail, _agent = None)
    /\ LET c == CreateAgent(_agent, _toolkit, config, fail)
       IN  /\ _agent' = c.agent
           /\ _toolkit' = c.toolkit
           /\ built' = c.constructed
           /\ mgr_ret' = [calls |-> mgr_ret.calls + 1, call |-> "create_agent",
                          raised |-> c.raised,
                          value |-> IF c.raised THEN None ELSE c.agent]

\* agent_manager.get_toolkit_info()
MgrGetToolkitInfo(fail) ==
    /\ ManagerCall(fail, _agent = None /\ _toolkit = None)
    /\ LET i == GetToolkitInfo(_agent, _toolkit, config, fail)
       IN  /\ _agent' = i.agent
           /\ _toolkit' = i.toolkit
           /\ built' = i.constructed
           /\ mgr_ret' = [calls |-> mgr_ret.calls + 1, call |-> "get_toolkit_info",
                          raised |-> FALSE, value |-> Some(i.ret)]

\* initialize_agent()
MgrInitializeAgent(fail) ==
    /\ ManagerCall(fail, _agent = None)
    /\ LET i == InitializeAgent(_agent, _toolkit, config, fail)
       IN  /\ _agent' = i.agent
           /\ _toolkit' = i.toolkit
           /\ built' = i.constructed
           /\ mgr_ret' = [calls |-> mgr_ret.calls + 1, call |-> "initialize_agent",
                          raised |-> FALSE, value |-> Some(i.ret)]

\* the manager's methods, with query over one question and one step
AgentNext ==
    \/ \E fail \in CreateFailures \cup {"none"} : MgrCreateAgent(fail)
    \/ \E fail \in CreateFailures \cup {"none"} : MgrGetToolkitInfo(fail)
    \/ \E fail \in CreateFailures \cup {"none"} : MgrInitializeAgent(fail)
    \/ \E db \in BOOLEAN : QueryInvoke("List all tables", db, TRUE)
    \/ \E fail \in CreateFailures :
            QueryCreateFails("List all tables", fail, fail # "database", TRUE)
    \/ TakeNextStep(ListTablesStep, 1)
    \/ FinalAnswer("")
    \/ ReturnStopped
    \/ InvokeRaises("completion capability unavailable")

AgentSpec == DbInit /\ [][AgentNext]_vars

----------------------------------------------------------------------------
(* Runs of the application script main() on one browser session. Every     *)
(* interaction with a widget runs the script once from the top; st.rerun() *)
(* ends the run and makes another one due.                                 *)

\* the outcome of a query_database call, by name
OutcomeName(o) ==
    IF o.raised THEN "exception"
    ELSE IF o.value.status = "success" THEN "success" ELSE "error"

\* a run with no widget set: display_sidebar, initialize_system, the title
\* and the transcript; st.stop() when initialize_system returned False
\* (at most MaxFailedRuns times)
Rerun(env) ==
    /\ script.pc = "rerun"
    /\ LET init == InitializeSystem(session_state, World(_agent, _toolkit, _db),
                                    warehouse, config, env)
       IN  /\ init.ret \/ script.failures < MaxFailedRuns
           /\ session_state' = init.session
           /\ _agent' = init.world.agent
           /\ _toolkit' = init.world.toolkit
           /\ _db' = init.world.db
           /\ built' = init.constructed
           /\ script' = [script EXCEPT !.pc = "waiting", !.widget = "none",
                                       !.ran = init.ran, !.ret = init.ret,
                                       !.failures = IF init.ret THEN @ ELSE @ + 1,
                                       !.outcome = "none"]
    /\ db_up' = env.up
    /\ UNCHANGED <<config, pc, question, intermediate_steps, iterations,
                   time_elapsed, outcome, result, response, calls, llm_up,
                   warehouse, db_ret, db_calls, concVars, retry, mgr_ret,
                   configVars>>

\* a sample-question button of the sidebar is clicked: display_sidebar
\* appends the question and calls st.rerun()
ClickSample(q) ==
    /\ script.pc = "waiting"
    /\ Len(session_state.messages) < MaxMessages
    /\ session_state' = [session_state EXCEPT
                            !.messages = Append(@, UserMessage(q))]
    /\ script' = [script EXCEPT !.pc = "rerun", !.widget = "sample",
                                !.ran = <<>>, !.ret = FALSE,
                                !.clicked = @ \cup {q}, !.outcome = "none"]
    /\ UNCHANGED <<queryVars, db_up, dbVars, concVars, retry, built, mgr_ret,
                   configVars>>

\* the Clear Chat button is clicked
ClickClear ==
    /\ script.pc = "waiting"
    /\ session_state' = [session_state EXCEPT !.messages = <<>>]
    /\ script' = [script EXCEPT !.pc = "rerun", !.widget = "clear",
                                !.ran = <<>>, !.ret = FALSE, !.outcome = "none"]
    /\ UNCHANGED <<queryVars, db_up, dbVars, concVars, retry, built, mgr_ret,
                   configVars>>

\* a question is typed into st.chat_input, which the last run has shown
\* only if its initialize_system returned True: initialize_system,
\* process_user_query(q) with query_database having outcome o, st.rerun()
ChatInput(q, o) ==
    /\ script.pc = "waiting"
    /\ script.ret
    /\ Len(session_state.messages) + 2 <= MaxMessages
    /\ o \in QueryOutcomes(q)
    /\ LET init == InitializeSystem(session_state, World(_agent, _toolkit, _db),
                                    warehouse, config,
                                    CHOOSE env \in InitEnvs : TRUE)
       IN  /\ session_state' =
                [init.session EXCEPT !.messages = ProcessUserQuery(@, q, o)]
           /\ script' = [script EXCEPT !.pc = "rerun", !.widget = "chat",
                                       !.ran = init.ran, !.ret = init.ret,
                                       !.asked = @ \cup {q},
                                       !.outcome = OutcomeName(o)]
    /\ UNCHANGED <<queryVars, db_up, dbVars, concVars, retry, built, mgr_ret,
                   configVars>>

UiNext ==
    \/ \E env \in InitEnvs : Rerun(env)
    \/ \E q \in SampleQuestions : ClickSample(q)
    \/ ClickClear
    \/ \E q \in Questions, o \in UNION {QueryOutcomes(x) : x \in Questions} :
            ChatInput(q, o)

UiSpec == DbInit /\ [][UiNext]_vars

\* Streamlit starts the run that st.rerun() or the page load has made due
UiLiveSpec == UiSpec /\ WF_vars(\E env \in InitEnvs : Rerun(env))

----------------------------------------------------------------------------
(* The configuration module is imported in two deployments, then           *)
(* display_config is called in both.                                       *)

\* import config / import config_aws: the class attributes are read from
\* the environment of each deployment
LoadConfigs(module, a, b) ==
    /\ settings = None
    /\ settings' = Some([module |-> module, loaded |-> <<a, b>>])
    /\ UNCHANGED <<queryVars, db_up, dbVars, concVars, retry, built, mgr_ret,
                   sessionVars, shown>>

\* config.display_config() in both deployments
DisplayConfigs ==
    /\ settings # None
    /\ shown = None
    /\ LET c == settings[1].loaded
       IN  shown' = IF settings[1].module = "config_aws"
                    THEN Some(<<DisplayConfig(c[1]), DisplayConfig(c[2])>>)
                    ELSE Some(<<DisplayConfigGCP(c[1]), DisplayConfigGCP(c[2])>>)
    /\ UNCHANGED <<queryVars, db_up, dbVars, concVars, retry, built, mgr_ret,
                   sessionVars, settings>>

ConfigNext ==
    \/ \E a, b \in ConfigsAWS : LoadConfigs("config_aws", a, b)
    \/ \E a, b \in ConfigsGCP : LoadConfigs("config", a, b)
    \/ DisplayConfigs

ConfigSpec == DbInit /\ [][ConfigNext]_vars

----------------------------------------------------------------------------
(* Properties *)

Returned == pc = "returned" /\ response # None
Succeeded == Returned /\ response[1].status = "success"
Failed == Returned /\ response[1].status = "error"

RECURSIVE IsSubseq(_, _)
IsSubseq(a, b) ==
    IF a = <<>> THEN TRUE
    ELSE IF b = <<>> THEN FALSE
    ELSE IF Head(a) = Head(b) THEN IsSubseq(Tail(a), Tail(b))
    ELSE IsSubseq(a, Tail(b))

\* a step that is a complete (action, observation) pair with a named tool and an input
WellFormed(step) == step.size >= 2 /\ step.toolKind = "str" /\ step.hasToolInput
\* a step that executed SQL
Executes(step) == WellFormed(step) /\ step.tool = sql_db_query

Inputs(steps) == [i \in 1..Len(steps) |-> steps[i].tool_input]
ExecutedInputs(steps) == Inputs(SelectSeq(steps, Executes))
WellFormedInputs(steps) == Inputs(SelectSeq(steps, WellFormed))

ExecuteCount(steps) == Cardinality({i \in 1..Len(steps) : Executes(steps[i])})

\* C1: query never raises: no call ends with an exception escaping, and every
\* returned dict has a status that is exactly 'success' or 'error'.
C1_QueryNeverRaises ==
    /\ pc # "raised"
    /\ pc = "returned" =>
        /\ response # None
        /\ "status" \in DOMAIN response[1]
        /\ response[1].status \in {"success", "error"}

\* a call whose create_agent raised has returned an error dict
C1_Witness == Failed /\ outcome = "error" /\ _agent = None

\* C2: when agent creation or agent.invoke raises, the result is an error
\* dict with the question and one error message and nothing of the trajectory.
C2_ErrorHasNoPartialData ==
    (pc = "returned" /\ outcome = "error") =>
        /\ response # None
        /\ response[1].status = "error"
        /\ DOMAIN response[1] = {"status", "question", "error"}

\* invoke raised after a query had already been executed
C2_Witness ==
    /\ Failed /\ outcome = "error"
    /\ \E i \in 1..Len(intermediate_steps) : Executes(intermediate_steps[i])

\* C3: a success result carries answer, sql_queries and steps_count;
\* steps_count is the length of the trajectory the loop returned and bounds
\* the length of sql_queries.
C3_SuccessCarriesCounts ==
    Succeeded =>
        /\ {"answer", "sql_queries", "steps_count"} \subseteq DOMAIN response[1]
        /\ response[1].steps_count = Len(intermediate_steps)
        /\ Len(response[1].sql_queries) <= response[1].steps_count

\* a success whose trajectory has more steps than listed queries
C3_Witness ==
    /\ Succeeded
    /\ Len(intermediate_steps) = 2
    /\ Len(response[1].sql_queries) = 1

\* C4: sql_queries holds exactly the inputs of the query-execution steps: as
\* many strings as the trajectory has execution steps, so none for a
\* trajectory of list-tables actions only.
C4_OnlyExecutedQueriesListed ==
    Succeeded => Len(response[1].sql_queries) = ExecuteCount(intermediate_steps)

\* C5: the executed queries form a subsequence of sql_queries, which is a
\* subsequence of the trajectory's action inputs: nothing executed is dropped,
\* reordered or de-duplicated.
C5_OrderPreservingSubsequence ==
    Succeeded =>
        /\ IsSubseq(ExecutedInputs(GetSteps(result[1])), response[1].sql_queries)
        /\ IsSubseq(response[1].sql_queries, WellFormedInputs(GetSteps(result[1])))

\* the same query executed twice and listed twice
C5_Witness ==
    /\ Succeeded
    /\ Len(GetSteps(result[1])) = 2
    /\ \A i \in 1..2 : Executes(GetSteps(result[1])[i]) /\ GetSteps(result[1])[i].tool_input = SQL1
    /\ response[1].sql_queries = <<SQL1, SQL1>>

\* some step's tool attribute is not a string
C6_MalformedRaises(steps) ==
    \E i \in 1..Len(steps) : steps[i].size >= 2 /\ steps[i].toolKind = "other"

\* C6: with no intermediate steps (key missing or list empty) the result is
\* a success with sql_queries = []; steps shorter than a pair or lacking
\* tool / tool_input do not fail the call and contribute nothing.
C6_ExtractionTolerant ==
    (pc = "returned" /\ ~C6_MalformedRaises(GetSteps(result[1]))) =>
        /\ Succeeded
        /\ GetSteps(result[1]) = <<>> => response[1].sql_queries = <<>>
        /\ IsSubseq(response[1].sql_queries, WellFormedInputs(GetSteps(result[1])))
        /\ response[1].steps_count = Len(GetSteps(result[1]))

\* a result with a too-short step and a step without tool, still a success
C6_Witness ==
    /\ Succeeded
    /\ \E i \in 1..Len(GetSteps(result[1])) : GetSteps(result[1])[i].size < 2
    /\ \E i \in 1..Len(GetSteps(result[1])) : GetSteps(result[1])[i].toolKind = "absent"

\* C7: the trajectory never has more steps than SQL_AGENT_MAX_ITERATIONS, so
\* a success result's steps_count is at most that.
C7_StepsWithinBudget ==
    /\ Len(intermediate_steps) <= config.SQL_AGENT_MAX_ITERATIONS
    /\ Succeeded => response[1].steps_count <= config.SQL_AGENT_MAX_ITERATIONS

\* a loop in progress whose trajectory has used the whole step budget
C7_Witness ==
    /\ pc = "invoking"
    /\ Len(intermediate_steps) = config.SQL_AGENT_MAX_ITERATIONS
    /\ Len(intermediate_steps) >= 2

\* C8: every query call whose loop has started eventually returns.
C8_QueryEventuallyReturns == (pc = "invoking") ~> (pc = "returned")

\* a call that returned because the time budget ran out before the step budget
C8_Witness ==
    /\ Returned /\ outcome = "aborted"
    /\ time_elapsed >= config.SQL_AGENT_MAX_EXECUTION_TIME
    /\ iterations < config.SQL_AGENT_MAX_ITERATIONS

\* steps taken >= max iterations, or elapsed time >= max execution time
C9_BudgetExhausted ==
    \/ iterations >= config.SQL_AGENT_MAX_ITERATIONS
    \/ time_elapsed >= config.SQL_AGENT_MAX_EXECUTION_TIME

\* C9: the loop aborts exactly when the step budget or the time budget is
\* used up, and then query returns a success with the best-effort answer
\* text and the steps taken so far.
C9_AbortExactlyOnBudget ==
    [][pc = "invoking" =>
        /\ (outcome' = "aborted") <=> C9_BudgetExhausted
        /\ (outcome' = "aborted") =>
            /\ pc' = "returned"
            /\ response'[1].status = "success"
            /\ \/ response'[1].answer = StoppedMessage
               \/ /\ intermediate_steps # <<>>
                  /\ response'[1].answer =
                        intermediate_steps[Len(intermediate_steps)].observation
            /\ response'[1].steps_count = iterations
            /\ intermediate_steps' = intermediate_steps]_vars

\* an abort on the step budget, answered with the stopped message
C9_Witness ==
    /\ Succeeded /\ outcome = "aborted"
    /\ iterations = config.SQL_AGENT_MAX_ITERATIONS
    /\ iterations >= 1
    /\ time_elapsed < config.SQL_AGENT_MAX_EXECUTION_TIME
    /\ response[1].answer = StoppedMessage

\* C10 as stated: with the budget used up and no answer text (no output, or
\* an empty one) the status is 'error'; a success has some answer text.
C10_NoAnswerTextIsError ==
    Returned =>
        /\ (outcome = "aborted" /\ (~result[1].hasOutput \/ result[1].output = ""))
                => response[1].status = "error"
        /\ response[1].status = "success" => (result[1].hasOutput /\ result[1].output # "")

\* C10 amended: whenever agent.invoke returns and the extraction does not
\* raise, the status is 'success' whatever the answer text: the answer is the
\* output as returned (even empty), or 'No response generated' when the
\* result has no output.
C10_SuccessWhateverTheAnswer ==
    (pc = "returned" /\ ~C6_MalformedRaises(GetSteps(result[1]))) =>
        /\ Succeeded
        /\ response[1].answer =
              IF result[1].hasOutput THEN result[1].output ELSE "No response generated"

\* an aborted loop whose result has no output, answered as a success
C10_Witness ==
    /\ Succeeded /\ outcome = "aborted"
    /\ ~result[1].hasOutput
    /\ response[1].answer = "No response generated"

\* the steps that record a per-step error: unparseable planning output, an
\* unknown action name, an action whose execution failed
PerStepErrors ==
    {ParseErrorStep, InvalidToolStep1, InvalidToolStep2, QueryFailedStep,
     ConnectionRefusedStep}

\* C11: a per-step error never ends the request and never raises out of the
\* loop: it becomes the observation of one step appended to the trajectory,
\* uses up exactly one iteration of the step budget, and the loop goes on
\* planning.
C11_StepErrorsBecomeObservations ==
    [][pc = "invoking" =>
        /\ (outcome' = "error" /\ pc' = "returned") =>
                response'[1].error # "Could not parse LLM output"
        /\ pc' # "raised"
        /\ (/\ intermediate_steps' # intermediate_steps
            /\ intermediate_steps'[Len(intermediate_steps')] \in PerStepErrors) =>
                /\ intermediate_steps' =
                      Append(intermediate_steps,
                             intermediate_steps'[Len(intermediate_steps')])
                /\ iterations' = iterations + 1
                /\ pc' = "invoking"
                /\ outcome' = "none"
                /\ response' = None]_vars

\* a loop that went on planning after an unparseable output and then after an
\* unknown action name
C11_Witness ==
    /\ pc = "invoking"
    /\ Len(intermediate_steps) = 2
    /\ intermediate_steps[1] = ParseErrorStep
    /\ intermediate_steps[2] = InvalidToolStep2
    /\ iterations = 2

\* every step of the trajectory records an action name that is not a tool
AllInvalidActions(steps) ==
    \A i \in 1..Len(steps) : steps[i] \in {InvalidToolStep1, InvalidToolStep2}

\* C12 as stated: when every planning turn proposes an invalid action name,
\* query returns a success with the generic stopped text and steps_count is
\* exactly max_iterations.
C12_InvalidActionsUseWholeStepBudget ==
    (Returned /\ outcome = "aborted" /\ AllInvalidActions(intermediate_steps)) =>
        /\ response[1].status = "success"
        /\ response[1].answer = StoppedMessage
        /\ response[1].steps_count = config.SQL_AGENT_MAX_ITERATIONS

\* C12 amended: when every planning turn proposes an invalid action name,
\* query returns a success with the generic stopped text and steps_count is
\* at most max_iterations; it is exactly max_iterations unless the time
\* budget ran out first.
C12_InvalidActionsUntilABudgetEnds ==
    (Returned /\ outcome = "aborted" /\ AllInvalidActions(intermediate_steps)) =>
        /\ response[1].status = "success"
        /\ response[1].answer = StoppedMessage
        /\ response[1].steps_count = Len(intermediate_steps)
        /\ response[1].steps_count <= config.SQL_AGENT_MAX_ITERATIONS
        /\ time_elapsed < config.SQL_AGENT_MAX_EXECUTION_TIME =>
                response[1].steps_count = config.SQL_AGENT_MAX_ITERATIONS

\* a run of invalid action names that used the whole step budget within the
\* time budget
C12_Witness ==
    /\ Returned /\ outcome = "aborted"
    /\ intermediate_steps = <<InvalidToolStep1, InvalidToolStep2>>
    /\ config.SQL_AGENT_MAX_ITERATIONS = 2
    /\ time_elapsed < config.SQL_AGENT_MAX_EXECUTION_TIME
    /\ response[1].steps_count = 2

\* a failure result: status 'error', a non-empty message, sql_queries absent
\* or empty
ErrorResult(r) ==
    /\ r.status = "error"
    /\ r.error # ""
    /\ ("sql_queries" \notin DOMAIN r \/ r.sql_queries = <<>>)

C18_ExactlyOneTerminalOutcome ==
    [][/\ pc' # "raised"
       /\ pc' = "returned" =>
            /\ response' # None
            /\ response'[1].status \in {"success", "error"}
            /\ (response'[1].status = "success") <=>
                    outcome' \in {"final_answer", "aborted"}
            /\ (response'[1].status = "error") <=> (outcome' = "error")
            /\ ("answer" \in DOMAIN response'[1]) <=> (response'[1].status = "success")
            /\ ("error" \in DOMAIN response'[1]) <=> (response'[1].status = "error")
       /\ pc' # "returned" => (response' = None /\ outcome' = "none")
       /\ (pc = "returned" /\ calls' = calls) =>
            UNCHANGED <<intermediate_steps, response, outcome, pc>>]_vars

\* a second call that ended in an error after a step had been appended
C18_Witness ==
    /\ Failed
    /\ calls = 2
    /\ outcome = "error"
    /\ Len(intermediate_steps) = 1

\* C14: no wrapper call raises. run_query returns the rendered result or an
\* error description for every SQL string, whether the connection cannot be
\* opened or the execution fails; get_table_info then returns an error
\* string and get_table_names the empty list.
C14_WrapperNeverRaises ==
    db_ret # None =>
        /\ ~db_ret[1].raised
        /\ db_ret[1].op = "run_query" =>
            /\ db_ret[1].value # <<>>
            /\ db_ret[1].value[1] \in {"[(", "", "Error executing query: "}
            /\ _db = None => db_ret[1].value =
                                <<"Error executing query: ", "connection refused">>
        /\ (db_ret[1].op = "get_table_info" /\ _db = None) =>
                db_ret[1].value =
                    <<"Error retrieving table information: ", "connection refused">>
        /\ (db_ret[1].op = "get_table_names" /\ _db = None) => db_ret[1].value = <<>>

\* a run_query that could not open the connection, and returned the error
\* description
C14_Witness ==
    /\ db_ret # None
    /\ db_ret[1].op = "run_query"
    /\ _db = None
    /\ ~db_up
    /\ db_ret[1].value = <<"Error executing query: ", "connection refused">>

\* C15: no call that hands SQL text to the warehouse (the execute-query
\* action of the loop, run_query) changes the warehouse contents, whatever
\* the text: INSERT, DELETE and DROP included.
C15_WarehouseNeverMutated == [][warehouse' = warehouse]_vars

\* two get_table_info calls in a row with the same table list: the state
\* holds the first call's return, the step is the second call
C20_SecondCall ==
    /\ db_ret # None
    /\ db_ret[1].op = "get_table_info"
    /\ db_calls' = db_calls + 1
    /\ db_ret'[1].op = "get_table_info"
    /\ db_ret'[1].arg = db_ret[1].arg
    /\ warehouse' = warehouse

C17_OneManagerPerAccessor ==
    \A k \in Kinds :
        /\ objects[k] <= 1
        /\ Cardinality({p \in returned : p[1] = k}) <= 1

\* C16: concurrent query calls are isolated, and no call writes a shared
\* handle while another call is in progress: each result's sql_queries and
\* steps_count come from the steps of its own call, and a step of one thread
\* that changes _agent, _toolkit or the database connection (the lazy
\* create_agent inside query included) finds every other thread outside
\* query.
C16_IsolatedAndNoSharedWrites ==
    [][\A t \in Threads :
        /\ (req'[t].pc = "returned" /\ req'[t].response[1].status = "success") =>
            /\ req'[t].response[1].sql_queries = ExtractSql(req'[t].steps)
            /\ req'[t].response[1].steps_count = Len(req'[t].steps)
        /\ (req'[t] # req[t] /\ sharedHandles' # sharedHandles) =>
            \A u \in Threads \ {t} : req[u].pc \in {"idle", "returned"}]_vars

\* C19: the steps of one trajectory are sequential and causally chained: at
\* most one action is in flight, each observation is the result of executing
\* the action recorded with it, and the planning turn that proposes step i+1
\* starts after observation i has been appended and has steps 0..i before it.
C19_StepsSequentialAndChained ==
    \A t \in Threads :
        /\ Cardinality(req[t].flying) <= 1
        /\ Len(req[t].queue) + Cardinality(req[t].flying) <= 1
        /\ req[t].pc = "planning" => (req[t].queue = <<>> /\ req[t].flying = {})
        /\ Len(req[t].seen) = Len(req[t].steps)
        /\ \A i \in 1..Len(req[t].steps) :
            /\ req[t].seen[i] = i - 1
            /\ req[t].steps[i].observation =
                    Execute(ActionOf(req[t].steps[i])).observation
        /\ \A i \in 1..Len(req[t].queue) : req[t].queue[i].seen = Len(req[t].steps)
        /\ \A a \in req[t].flying : a.seen = Len(req[t].steps)

\* one thread has appended two steps, each proposed with the earlier ones
\* before it, while the other thread has an action in flight
C19_Witness ==
    /\ req[1].steps = <<ListTablesStep, QueryStep2>>
    /\ req[1].seen = <<0, 1>>
    /\ req[1].pc = "planning"
    /\ req[2].flying # {}
    /\ Len(req[2].steps) = 1

\* the waits of a call whose n passes were all throttled: 1, 2, 4, ...
BackoffWaits(n) == [i \in 1..(IF n > 0 THEN n - 1 ELSE 0) |-> Pow2(i - 1)]

\* every pass of the call in progress so far was throttled
AllThrottled(r) == \A i \in 1..Len(r.seen) : r.seen[i] = "ThrottlingException"

\* C22: invoke_with_retries makes at most max_retries LLM invocations (none
\* when max_retries is not positive); a pass is followed by another one
\* only if it met a ClientError with code ThrottlingException, any other
\* failure returns an error result at once, and on success the attempts
\* field is the number of invocations made.
C22_RetriesOnlyOnThrottling ==
    /\ retry.invocations <= (IF retry.max_retries > 0 THEN retry.max_retries ELSE 0)
    /\ \A i \in 1..(Len(retry.seen) - 1) : retry.seen[i] = "ThrottlingException"
    /\ retry.pc = "running" => AllThrottled(retry)
    /\ (/\ retry.pc = "returned"
        /\ retry.seen # <<>>
        /\ retry.seen[Len(retry.seen)] \notin {"ok", "ThrottlingException"})
       => /\ retry.ret[1].status = "error"
          /\ retry.ret[1] # MaxRetriesExceeded
    /\ (retry.pc = "returned" /\ retry.ret[1].status = "success")
       => /\ retry.ret[1].attempts = retry.invocations
          /\ retry.seen[Len(retry.seen)] = "ok"

C22_Witness ==
    /\ retry.pc = "returned"
    /\ retry.ret[1].status = "success"
    /\ retry.ret[1].attempts = MaxRetries
    /\ retry.max_retries = MaxRetries

\* C23: invoke_with_retries returns for every max_retries and never
\* raises; when every pass is throttled it returns status error with
\* error_code ThrottlingException after exactly max_retries invocations
\* and max_retries - 1 waits of 1, 2, 4, ... seconds, and it returns
\* "Max retries exceeded" only when max_retries <= 0, having made no
\* invocation.
C23_AlwaysReturns ==
    /\ [](retry.pc \in {"idle", "running", "returned"})
    /\ []((retry.pc = "returned") <=> (retry.ret # None))
    /\ []((retry.pc = "returned" /\ retry.seen # <<>> /\ AllThrottled(retry))
            => /\ retry.ret[1].status = "error"
               /\ "error_code" \in DOMAIN retry.ret[1]
               /\ retry.ret[1].error_code = "ThrottlingException"
               /\ retry.invocations = retry.max_retries
               /\ retry.waits = BackoffWaits(retry.max_retries))
    /\ []((retry.pc = "returned" /\ retry.ret[1] = MaxRetriesExceeded)
            => retry.max_retries <= 0 /\ retry.invocations = 0)
    /\ (retry.pc = "running") ~> (retry.pc = "returned")

C23_Witness ==
    /\ retry.pc = "returned"
    /\ retry.max_retries = MaxRetries
    /\ Len(retry.seen) = MaxRetries
    /\ AllThrottled(retry)
    /\ retry.waits = BackoffWaits(MaxRetries)
    /\ Len(retry.waits) >= 2
    /\ retry.waits[2] = 2

\* C21: the reasoning core performs no retries. The agent is invoked only
\* on entry of a query call, at most once per call (once whenever the
\* agent could be built); an exception out of that invocation makes the
\* call return the error result at once, with the trajectory left as it
\* was; while the invocation runs it only moves forward by one iteration
\* at a time; and no step of a query call touches invoke_with_retries.
C21_NoRetries ==
    [][/\ pc' = "invoking" /\ pc # "invoking" => calls' = calls + 1
       /\ pc = "invoking" /\ outcome' = "error"
            => /\ pc' = "returned"
               /\ response'[1].status = "error"
               /\ response'[1].error \in AllLoopErrors
               /\ UNCHANGED <<intermediate_steps, iterations, calls>>
       /\ pc = "invoking" /\ pc' = "invoking"
            => /\ iterations' = iterations + 1
               /\ UNCHANGED <<calls, outcome>>
       /\ retry' = retry
       /\ retry = IdleRetry]_vars

C21_Witness ==
    /\ pc = "returned"
    /\ outcome = "error"
    /\ _agent # None
    /\ response[1].error = "completion capability unavailable"
    /\ Len(intermediate_steps) >= 1
    /\ retry = IdleRetry

\* a step that is a call of create_agent
CreateAgentCalled == mgr_ret' # mgr_ret /\ mgr_ret'.call = "create_agent"

\* a step that starts a call on the manager
ManagerEntered == mgr_ret' # mgr_ret \/ calls' = calls + 1

\* C24: on one manager whose calls follow one another, the agent is built
\* at most once: once _agent is set, every later create_agent returns that
\* agent and every later query invokes it, and no call constructs a toolkit
\* or an agent again; a create_agent that fails raises and leaves _agent
\* None, and a call that finds _agent None tries the construction again.
C24_AgentBuiltAtMostOnce ==
    [][/\ "agent" \in built' /\ ManagerEntered => _agent = None
       /\ _agent # None =>
            /\ _agent' = _agent /\ _toolkit' = _toolkit
            /\ ManagerEntered => built' = {}
            /\ CreateAgentCalled => ~mgr_ret'.raised /\ mgr_ret'.value = _agent
            /\ calls' = calls + 1 => pc' = "invoking"
       /\ (_agent = None /\ CreateAgentCalled) =>
            /\ "try" \in built'
            /\ mgr_ret'.raised => _agent' = None /\ "agent" \notin built'
            /\ ~mgr_ret'.raised =>
                    /\ _agent' # None
                    /\ mgr_ret'.value = _agent'
                    /\ "agent" \in built'
       /\ (_agent = None /\ calls' = calls + 1) =>
            /\ "try" \in built'
            /\ pc' = "invoking" <=> _agent' # None]_vars

\* a create_agent call, made after other calls, that constructed nothing
\* and returned the agent the manager holds
C24_Witness ==
    /\ mgr_ret.calls = 2
    /\ mgr_ret.call = "create_agent"
    /\ ~mgr_ret.raised
    /\ mgr_ret.value = _agent
    /\ calls = 1
    /\ built = {}

\* C25: _toolkit is set if and only if _agent is set, and get_toolkit_info
\* reports status success only for a manager whose agent was created.
C25_ToolkitIffAgent ==
    /\ (_toolkit # None) <=> (_agent # None)
    /\ (mgr_ret.call = "get_toolkit_info" /\ mgr_ret.value[1].status = "success")
            => _agent # None

\* C29: test_connection and initialize_database never raise; they report
\* status success only when the connection was established and the table
\* names were retrieved, with table_count the number of tables returned,
\* and a failure while connecting or while listing the tables yields
\* status error.
C29_SuccessOnlyWhenTablesListed ==
    (db_ret # None /\ db_ret[1].op \in {"test_connection", "initialize_database"})
        => LET r == db_ret[1]
           IN  /\ ~r.raised
               /\ r.value.status \in {"success", "error"}
               /\ r.value.status = "success" =>
                    /\ r.connected /\ r.listed /\ _db # None
                    /\ r.value.tables = SortedNames(_db[1].tables)
                    /\ r.value.table_count = Len(r.value.tables)
               /\ (~r.connected \/ ~r.listed) => r.value.status = "error"

\* the stages of initialize_system, in the order of the code
Stages == <<"validate", "database", "llm", "agent">>

IsSuccess(status) == status # None /\ status[1].status = "success"

\* a step that is a run of the script which got as far as initialize_system
InitializeSystemCalled == script' # script /\ script'.widget \in {"none", "chat"}

\* C26: initialize_system calls config validation, database, LLM and agent
\* initialization in that order and stops at the first stage that fails,
\* leaving the statuses of the later stages as they were; initialized
\* becomes True only when all three statuses are success, a failed run
\* leaves it False and the next run starts again with the validation, and
\* once it is True initialize_system returns True and calls no stage.
C26_StagedInitialization ==
    [][IF InitializeSystemCalled
       THEN LET ran == script'.ran
                s == session_state
                t == session_state'
            IN  /\ \E n \in 0..Len(Stages) : ran = SubSeq(Stages, 1, n)
                /\ s.initialized =>
                        /\ ran = <<>> /\ script'.ret /\ t.initialized
                        /\ t.db_status = s.db_status
                        /\ t.llm_status = s.llm_status
                        /\ t.agent_status = s.agent_status
                /\ ~s.initialized =>
                        /\ ran # <<>>
                        /\ Len(ran) < 2 => t.db_status = s.db_status
                        /\ Len(ran) < 3 => t.llm_status = s.llm_status
                        /\ Len(ran) < 4 => t.agent_status = s.agent_status
                        /\ Len(ran) = 2 => ~IsSuccess(t.db_status)
                        /\ Len(ran) = 3 => ~IsSuccess(t.llm_status)
                        /\ Len(ran) >= 3 => IsSuccess(t.db_status)
                        /\ Len(ran) = 4 => IsSuccess(t.llm_status)
                        /\ script'.ret <=> (Len(ran) = 4 /\ IsSuccess(t.agent_status))
                /\ t.initialized <=> script'.ret
                /\ t.initialized =>
                        /\ IsSuccess(t.db_status)
                        /\ IsSuccess(t.llm_status)
                        /\ IsSuccess(t.agent_status)
       ELSE /\ session_state'.initialized = session_state.initialized
            /\ session_state'.db_status = session_state.db_status
            /\ session_state'.llm_status = session_state.llm_status
            /\ session_state'.agent_status = session_state.agent_status]_vars

\* a run that failed, a later run that succeeded, and a run after that
\* which called no stage
C26_Witness ==
    /\ session_state.initialized
    /\ script.failures >= 1
    /\ script.widget = "none"
    /\ script.ran = <<>>
    /\ script.ret

\* a step that is a run of the script in which process_user_query was called
ProcessUserQueryCalled == script' # script /\ script'.widget = "chat"

\* C27: a process_user_query call appends exactly two entries to the
\* transcript, the user message with the question and then one assistant
\* message, whether query_database returned a success result, returned an
\* error result or raised; the assistant entry carries sql_queries and
\* steps_count and no error mark on success, and error = True without them
\* otherwise; the earlier entries are unchanged.
C27_TwoEntriesPerQuery ==
    [][ProcessUserQueryCalled =>
        LET old == session_state.messages
            new == session_state'.messages
            n == Len(old)
        IN  /\ Len(new) = n + 2
            /\ SubSeq(new, 1, n) = old
            /\ \E q \in Questions : new[n + 1] = UserMessage(q)
            /\ new[n + 2].role = "assistant"
            /\ script'.outcome \in {"success", "error", "exception"}
            /\ script'.outcome = "success" =>
                    DOMAIN new[n + 2] = {"role", "content", "sql_queries", "steps_count"}
            /\ script'.outcome # "success" =>
                    /\ DOMAIN new[n + 2] = {"role", "content", "error"}
                    /\ new[n + 2].error = TRUE]_vars

\* a question whose query_database call raised, asked on a transcript that
\* had entries already
C27_Witness ==
    /\ script.widget = "chat"
    /\ script.outcome = "exception"
    /\ Len(session_state.messages) >= 3
    /\ session_state.messages[Len(session_state.messages)].error

LastRole == session_state.messages[Len(session_state.messages)].role

\* C28: a sample question clicked in the sidebar is submitted to
\* query_database and an assistant reply is eventually appended for it, so
\* a transcript ending with a user message eventually ends with an
\* assistant message.
C28_SampleQuestionAnswered ==
    /\ \A q \in SampleQuestions : (q \in script.clicked) ~> (q \in script.asked)
    /\ (session_state.messages # <<>> /\ LastRole = "user")
            ~> (session_state.messages # <<>> /\ LastRole = "assistant")

\* the two configurations agree on every setting that is not a secret
DifferOnlyInSecrets(a, b) ==
    /\ DOMAIN a = DOMAIN b
    /\ \A f \in DOMAIN a \ SecretFields : a[f] = b[f]

\* C30: display_config exposes no sensitive data: two configurations that
\* differ only in secret fields (REDSHIFT_PASSWORD, the AWS access key,
\* secret key and session token, the LangChain API key, the credentials
\* path) are displayed as identical dictionaries.
C30_DisplayIndependentOfSecrets ==
    (shown # None /\ DifferOnlyInSecrets(settings[1].loaded[1], settings[1].loaded[2]))
        => shown[1][1] = shown[1][2]

C30_Witness ==
    /\ shown # None
    /\ settings[1].module = "config_aws"
    /\ DifferOnlyInSecrets(settings[1].loaded[1], settings[1].loaded[2])
    /\ settings[1].loaded[1].REDSHIFT_PASSWORD # settings[1].loaded[2].REDSHIFT_PASSWORD
    /\ settings[1].loaded[1].AWS_SECRET_ACCESS_KEY # settings[1].loaded[2].AWS_SECRET_ACCESS_KEY
    /\ shown[1][1]["AWS Region"] = "eu-west-1"

====
